---------------------------- MODULE Spec2Model ----------------------------
(***************************************************************************)
(* A model of the AP_Poker pokerbot (src/bot/AP_Poker/player.py): the      *)
(* card allocator, the per-board betting policy of get_actions and the     *)
(* threshold tuner (mutate), and of the allocator and get_actions of the   *)
(* pair-hunt bot (src/bot/pair_hunt_all_in_sorting_bot/player.py).         *)
(*                                                                         *)
(* Numbers.  Python floats are modelled in thousandths (Scale): a strength *)
(* of 0.8 is 800, the threshold 0.6066... is 607.  The tunable parameters  *)
(* are floats that the tuner adds to and subtracts from, so they keep a    *)
(* floating-point rounding: every result of an addition or subtraction is  *)
(* rounded to Mantissa significant bits, ties to even (FRound), as IEEE    *)
(* doubles are to 53 bits.                                                 *)
(*                                                                         *)
(* The bot is driven by the engine, which calls handle_new_round,          *)
(* get_actions and handle_round_over.  A pending call is the record call;  *)
(* the handler that serves it is one action.  last records the call that   *)
(* was served last, the random draws it made and the state it started      *)
(* from, so that what a handler did can be stated as a state predicate.    *)
(***************************************************************************)
EXTENDS Integers, Sequences, FiniteSets, TLC

VARIABLES
    \* module-level tunable parameters (player.py:43-45)
    RAISE_MIN_STR, CALL_MIN_STR, RAISE_VALUES,
    \* Player fields of the tuner (player.py:69-76)
    total_payoffs, mutated,
    draise_pre, draise_post, dcall_pre, dcall_post, draise_exp, draise_const,
    \* Player fields of the allocator (player.py:65-66, 82)
    board_allocations, hole_strengths, starting_strengths,
    \* the engine's side: the round counter and the call in flight
    round_num, call,
    \* what the last served call returned / how it ended, and its history
    ret, last,
    \* the parameters as they were before the mutation applied last (history)
    baseline

tunerVars == <<RAISE_MIN_STR, CALL_MIN_STR, RAISE_VALUES, total_payoffs, mutated,
               draise_pre, draise_post, dcall_pre, dcall_post, draise_exp, draise_const>>
allocVars == <<board_allocations, hole_strengths>>
vars == <<RAISE_MIN_STR, CALL_MIN_STR, RAISE_VALUES, total_payoffs, mutated,
          draise_pre, draise_post, dcall_pre, dcall_post, draise_exp, draise_const,
          board_allocations, hole_strengths, starting_strengths,
          round_num, call, ret, last, baseline>>

---------------------------------------------------------------------------
(* Number representation *)

\* one unit of a modelled float is 1/Scale
Scale == 10 * 10 * 10

\* significant bits kept by a float addition or subtraction
Mantissa == 10

Abs(x) == IF x < 0 THEN -x ELSE x

Sign(x) == IF x < 0 THEN -1 ELSE 1

RECURSIVE Pow2(_)
Pow2(n) == IF n = 0 THEN 1 ELSE 2 * Pow2(n - 1)

\* the spacing of representable values around magnitude a (q starts at 1)
RECURSIVE Quantum(_, _)
Quantum(a, q) == IF a < Pow2(Mantissa) * q THEN q ELSE Quantum(a, 2 * q)

\* round to nearest representable value, ties to the even mantissa
FRound(x) ==
    LET a == Abs(x)
        q == Quantum(a, 1)
        m == a \div q
        r == a % q
        up == (2 * r > q) \/ (2 * r = q /\ m % 2 = 1)
    IN  Sign(x) * (IF up THEN m + 1 ELSE m) * q

\* float addition and subtraction (player.py:238-243, 253-258)
FAdd(a, b) == FRound(a + b)

FSub(a, b) == FRound(a - b)

\* a / b rounded to the nearest integer, b > 0
RoundDiv(a, b) == Sign(a) * ((2 * Abs(a) + b) \div (2 * b))

\* int(): a / b truncated toward zero, b > 0
TruncDiv(a, b) == Sign(a) * (Abs(a) \div b)

\* floor of the square root, by bisection on lo..hi
RECURSIVE SqrtBetween(_, _, _)
SqrtBetween(x, lo, hi) ==
    IF lo >= hi THEN lo
    ELSE LET mid == (lo + hi + 1) \div 2
         IN  IF mid * mid <= x THEN SqrtBetween(x, mid, hi)
             ELSE SqrtBetween(x, lo, mid - 1)

ISqrt(x) == SqrtBetween(x, 0, 46340)

---------------------------------------------------------------------------
(* Threshold tuner: Player.mutate *)

\* the static defaults, in thousandths
RAISE_MIN_STR_pre == 607
RAISE_MIN_STR_post == 721
CALL_MIN_STR_pre == 557
CALL_MIN_STR_post == 621
RAISE_VALUES_exp == 1830
RAISE_VALUES_const == 14440

\* window size and the per-round share of the target
mutate_iters == 5
TargetPerRound == 6

\* widths of the perturbation ranges, in thousandths: 0.05, 0.1 and 4
WidthThreshold == 50
WidthExp == 100
WidthConst == 4000

\* the engine plays rounds 1..MaxRound
MaxRound == 10

\* values random.random() is drawn from, in thousandths of [0, 1)
RandomDraws == {0, 999}

\* a round's signed chip delta
RoundDeltas == {-6, 6, 18}

\* (random.random() * width - width/2) / math.sqrt(round_num / mutate_iters)
Perturbation(r, width, rnd) ==
    LET num == r * width - (width * Scale) \div 2
        root == ISqrt((rnd * Scale * Scale) \div mutate_iters)
    IN  FRound(RoundDiv(num, root))


\* the six tunable parameters as one record (player.py:43-45)
Params == [raise_pre   |-> RAISE_MIN_STR.pre,  raise_post |-> RAISE_MIN_STR.post,
           call_pre    |-> CALL_MIN_STR.pre,   call_post  |-> CALL_MIN_STR.post,
           exp         |-> RAISE_VALUES.exp,   const      |-> RAISE_VALUES.const]

\* the six stored perturbations as one record (player.py:71-76)
Deltas == [raise_pre   |-> draise_pre,  raise_post |-> draise_post,
           call_pre    |-> dcall_pre,   call_post  |-> dcall_post,
           exp         |-> draise_exp,  const      |-> draise_const]

NoCall == [op |-> "none"]

\* the accumulated payoff once this round's delta is added (player.py:219)
Accumulate(total, my_delta) == total + my_delta

\* variant of MutateBranch: a failed window samples a new mutation whether or
\* not one is active
MutateBranchCompounding(rnd, total, isMutated) ==
    IF rnd % mutate_iters # 0 THEN "none"
    ELSE IF total < TargetPerRound * mutate_iters THEN "mutate"
    ELSE IF total = TargetPerRound * mutate_iters THEN "tie"
    ELSE "success"

\* which branch of mutate runs (player.py:223-267)
MutateBranch(rnd, total, isMutated) ==
    IF rnd % mutate_iters # 0 THEN "none"
    ELSE IF total < TargetPerRound * mutate_iters
         THEN (IF ~isMutated THEN "mutate" ELSE "revert")
    ELSE IF total = TargetPerRound * mutate_iters THEN "tie"
    ELSE "success"

\* mutant: the success branch forgets to clear the flag
MutatedAfterSuccessKept(branch, isMutated) ==
    CASE branch = "mutate"  -> TRUE
      [] branch = "revert"  -> FALSE
      [] OTHER              -> isMutated

\* variant of MutatedAfter: a window that meets the target exactly clears the flag
MutatedAfterTieCleared(branch, isMutated) ==
    CASE branch = "mutate"  -> TRUE
      [] branch = "revert"  -> FALSE
      [] branch = "success" -> FALSE
      [] branch = "tie"     -> FALSE
      [] OTHER              -> isMutated

\* the active-mutation flag after a branch (player.py:228, 251, 299)
MutatedAfter(branch, isMutated) ==
    CASE branch = "mutate"  -> TRUE
      [] branch = "revert"  -> FALSE
      [] branch = "success" -> FALSE
      [] OTHER              -> isMutated

\* a stored perturbation after a branch: resampled only when mutating
\* (player.py:230-235)
DeltaAfter(branch, old, r, width, rnd) ==
    IF branch = "mutate" THEN Perturbation(r, width, rnd) ELSE old

\* mutant: the sampled perturbation of a new mutation is stored, not applied
ParamAfterNotApplied(branch, p, d) ==
    CASE branch = "revert" -> FSub(p, d)
      [] OTHER             -> p

\* variant of ParamAfter: the stored perturbation is also added on rounds that
\* do not close a window
ParamAfterEveryRound(branch, p, d) ==
    CASE branch = "mutate" -> FAdd(p, d)
      [] branch = "revert" -> FSub(p, d)
      [] OTHER             -> FAdd(p, d)

\* a parameter after a branch: d is the perturbation stored after the branch
\* (player.py:238-243, 253-258)
ParamAfter(branch, p, d) ==
    CASE branch = "mutate" -> FAdd(p, d)
      [] branch = "revert" -> FSub(p, d)
      [] OTHER             -> p

\* mutant: the accumulator is never reset
PayoffsAfterNoReset(rnd, total) == total

\* the accumulator after the call (player.py:301)
PayoffsAfter(rnd, total) == IF rnd % mutate_iters = 0 THEN 0 ELSE total

\* Player.mutate (player.py:215-301); draws are the six random.random() values
Mutate(my_delta, draws) ==
    LET total  == Accumulate(total_payoffs, my_delta)
        branch == MutateBranch(round_num, total, mutated)
        d1 == DeltaAfter(branch, draise_pre,   draws[1], WidthThreshold, round_num)
        d2 == DeltaAfter(branch, draise_post,  draws[2], WidthThreshold, round_num)
        d3 == DeltaAfter(branch, dcall_pre,    draws[3], WidthThreshold, round_num)
        d4 == DeltaAfter(branch, dcall_post,   draws[4], WidthThreshold, round_num)
        d5 == DeltaAfter(branch, draise_exp,   draws[5], WidthExp,       round_num)
        d6 == DeltaAfter(branch, draise_const, draws[6], WidthConst,     round_num)
    IN  /\ draise_pre' = d1
        /\ draise_post' = d2
        /\ dcall_pre' = d3
        /\ dcall_post' = d4
        /\ draise_exp' = d5
        /\ draise_const' = d6
        /\ RAISE_MIN_STR' = [pre  |-> ParamAfter(branch, RAISE_MIN_STR.pre, d1),
                             post |-> ParamAfter(branch, RAISE_MIN_STR.post, d2)]
        /\ CALL_MIN_STR' = [pre  |-> ParamAfter(branch, CALL_MIN_STR.pre, d3),
                            post |-> ParamAfter(branch, CALL_MIN_STR.post, d4)]
        /\ RAISE_VALUES' = [exp   |-> ParamAfter(branch, RAISE_VALUES.exp, d5),
                            const |-> ParamAfter(branch, RAISE_VALUES.const, d6)]
        /\ mutated' = MutatedAfter(branch, mutated)
        /\ total_payoffs' = PayoffsAfter(round_num, total)
        /\ baseline' = IF branch = "mutate" THEN Params ELSE baseline

\* the engine ends a round and calls handle_round_over with the round's delta
EngineRoundOver ==
    /\ call.op = "none"
    /\ round_num < MaxRound
    /\ \E d \in RoundDeltas :
          call' = [op |-> "handle_round_over", my_delta |-> d]
    /\ round_num' = round_num + 1
    /\ UNCHANGED <<tunerVars, allocVars, starting_strengths, ret, last, baseline>>

\* the random.random() values one call of mutate consumes: six when it
\* samples a new mutation, none otherwise (recorded as zeros)
DrawChoices(branch) ==
    IF branch = "mutate" THEN [1..6 -> RandomDraws] ELSE {[k \in 1..6 |-> 0]}

\* Player.handle_round_over (player.py:337-368): resets the allocation, runs
\* mutate
HandleRoundOver ==
    /\ call.op = "handle_round_over"
    /\ \E draws \in DrawChoices(MutateBranch(round_num,
                         Accumulate(total_payoffs, call.my_delta), mutated)) :
          /\ Mutate(call.my_delta, draws)
          /\ last' = [op |-> "handle_round_over", round_num |-> round_num,
                      my_delta |-> call.my_delta, draws |-> draws,
                      pre |-> [params |-> Params, deltas |-> Deltas,
                               total_payoffs |-> total_payoffs, mutated |-> mutated]]
    /\ board_allocations' = <<<<>>, <<>>, <<>>>>
    /\ hole_strengths' = <<0, 0, 0>>
    /\ call' = NoCall
    /\ ret' = [op |-> "handle_round_over"]
    /\ UNCHANGED <<starting_strengths, round_num>>

\* the state after Player.__init__ (player.py:55-82) with the module defaults
InitTuner ==
    /\ RAISE_MIN_STR = [pre |-> FRound(RAISE_MIN_STR_pre), post |-> FRound(RAISE_MIN_STR_post)]
    /\ CALL_MIN_STR = [pre |-> FRound(CALL_MIN_STR_pre), post |-> FRound(CALL_MIN_STR_post)]
    /\ RAISE_VALUES = [exp |-> FRound(RAISE_VALUES_exp), const |-> FRound(RAISE_VALUES_const)]
    /\ total_payoffs = 0
    /\ mutated = FALSE
    /\ draise_pre = 0 /\ draise_post = 0 /\ dcall_pre = 0 /\ dcall_post = 0
    /\ draise_exp = 0 /\ draise_const = 0
    /\ baseline = [raise_pre |-> FRound(RAISE_MIN_STR_pre), raise_post |-> FRound(RAISE_MIN_STR_post),
                   call_pre |-> FRound(CALL_MIN_STR_pre), call_post |-> FRound(CALL_MIN_STR_post),
                   exp |-> FRound(RAISE_VALUES_exp), const |-> FRound(RAISE_VALUES_const)]

InitIdle ==
    /\ board_allocations = <<<<>>, <<>>, <<>>>>
    /\ hole_strengths = <<0, 0, 0>>
    /\ round_num = 0
    /\ call = NoCall
    /\ ret = [op |-> "none"]
    /\ last = [op |-> "init"]

NextTuner == EngineRoundOver \/ HandleRoundOver

---------------------------------------------------------------------------
(* Card allocator: Player.allocate_cards *)

\* a card is <<rank, suit>>, the two characters of the engine's card string
RANK_DICT == [r \in {"2", "3", "4", "5", "6", "7", "8", "9", "T", "J", "Q", "K", "A"} |->
                 CASE r = "2" -> 2 [] r = "3" -> 3 [] r = "4" -> 4 [] r = "5" -> 5
                   [] r = "6" -> 6 [] r = "7" -> 7 [] r = "8" -> 8 [] r = "9" -> 9
                   [] r = "T" -> 10 [] r = "J" -> 11 [] r = "Q" -> 12 [] r = "K" -> 13
                   [] r = "A" -> 14]

\* Player.rank_to_numeric (player.py:85-93)
rank_to_numeric(rank) == RANK_DICT[rank]

\* insert card c into the rank-descending list cs behind every card whose rank
\* is not lower (sorted() is stable, also with reverse=True)
RECURSIVE InsertByRank(_, _)
InsertByRank(cs, c) ==
    IF cs = <<>> THEN <<c>>
    ELSE IF rank_to_numeric(Head(cs)[1]) >= rank_to_numeric(c[1])
         THEN <<Head(cs)>> \o InsertByRank(Tail(cs), c)
         ELSE <<c>> \o cs

\* Player.sort_cards_by_rank (player.py:96-103)
RECURSIVE sort_cards_by_rank(_)
sort_cards_by_rank(cards) ==
    IF cards = <<>> THEN <<>>
    ELSE InsertByRank(sort_cards_by_rank(SubSeq(cards, 1, Len(cards) - 1)),
                      cards[Len(cards)])

\* Player.hole_list_to_key (player.py:106-127): <<high rank, low rank, s/o>>
hole_list_to_key(hole) ==
    LET rank_1 == hole[1][1]
        suit_1 == hole[1][2]
        rank_2 == hole[2][1]
        suit_2 == hole[2][2]
        suit_string == IF suit_1 = suit_2 THEN "s" ELSE "o"
    IN  IF rank_to_numeric(rank_1) >= rank_to_numeric(rank_2)
        THEN <<rank_1, rank_2, suit_string>>
        ELSE <<rank_2, rank_1, suit_string>>

\* list.remove(c): drops the first element equal to c
RECURSIVE Remove(_, _)
Remove(cs, c) ==
    IF cs = <<>> THEN <<>>
    ELSE IF Head(cs) = c THEN Tail(cs)
    ELSE <<Head(cs)>> \o Remove(Tail(cs), c)

\* variant of Stronger: an equally strong later pair replaces the best so far
StrongerOrEqual(strength, max_strength_hole) == strength >= max_strength_hole

\* whether the scan keeps a candidate pair: strictly stronger than the best so far
Stronger(strength, max_strength_hole) == strength > max_strength_hole

\* variant of ScanPairs: a key the table does not have counts as strength 0
RECURSIVE ScanPairsDefaultZero(_, _, _, _, _, _)
ScanPairsDefaultZero(my_cards, table, i, j, temp_cards, max_strength_hole) ==
    IF i > Len(my_cards) - 1
    THEN [error |-> "none", temp_cards |-> temp_cards,
          max_strength_hole |-> max_strength_hole]
    ELSE IF j > Len(my_cards)
    THEN ScanPairsDefaultZero(my_cards, table, i + 1, i + 2, temp_cards, max_strength_hole)
    ELSE LET hole_list == <<my_cards[i], my_cards[j]>>
             temp_hole == hole_list_to_key(hole_list)
             strength == IF temp_hole \in DOMAIN table THEN table[temp_hole] ELSE 0
         IN  IF Stronger(strength, max_strength_hole)
             THEN ScanPairsDefaultZero(my_cards, table, i, j + 1, hole_list, strength)
             ELSE ScanPairsDefaultZero(my_cards, table, i, j + 1, temp_cards, max_strength_hole)

\* the double loop over i < j of one pass (player.py:143-154), resumed at (i, j)
RECURSIVE ScanPairs(_, _, _, _, _, _)
ScanPairs(my_cards, table, i, j, temp_cards, max_strength_hole) ==
    IF i > Len(my_cards) - 1
    THEN [error |-> "none", temp_cards |-> temp_cards,
          max_strength_hole |-> max_strength_hole]
    ELSE IF j > Len(my_cards)
    THEN ScanPairs(my_cards, table, i + 1, i + 2, temp_cards, max_strength_hole)
    ELSE LET hole_list == <<my_cards[i], my_cards[j]>>
             temp_hole == hole_list_to_key(hole_list)
         IN  IF temp_hole \notin DOMAIN table
             THEN [error |-> "KeyError", temp_cards |-> temp_cards,
                   max_strength_hole |-> max_strength_hole]
             ELSE IF Stronger(table[temp_hole], max_strength_hole)
             THEN ScanPairs(my_cards, table, i, j + 1, hole_list, table[temp_hole])
             ELSE ScanPairs(my_cards, table, i, j + 1, temp_cards, max_strength_hole)

\* variant of AllocPasses: the k-th selected pair is stored on board k
RECURSIVE AllocPassesAscending(_, _, _, _, _)
AllocPassesAscending(k, my_cards, table, allocs, strengths) ==
    IF k = 3
    THEN [error |-> "none", board_allocations |-> allocs, hole_strengths |-> strengths]
    ELSE LET best == ScanPairs(my_cards, table, 1, 2, <<>>, 0)
             allocs2 == [allocs EXCEPT ![k + 1] = best.temp_cards]
             strengths2 == [strengths EXCEPT ![k + 1] = best.max_strength_hole]
         IN  IF best.error # "none"
             THEN [error |-> best.error, board_allocations |-> allocs,
                   hole_strengths |-> strengths]
             ELSE IF Len(best.temp_cards) = 0
             THEN [error |-> "IndexError", board_allocations |-> allocs2,
                   hole_strengths |-> strengths2]
             ELSE AllocPassesAscending(k + 1,
                              Remove(Remove(my_cards, best.temp_cards[1]), best.temp_cards[2]),
                              table, allocs2, strengths2)

\* passes k, k+1, ... of the outer loop (player.py:142-159); an exception ends
\* the call and leaves what the earlier statements already wrote
RECURSIVE AllocPasses(_, _, _, _, _)
AllocPasses(k, my_cards, table, allocs, strengths) ==
    IF k = 3
    THEN [error |-> "none", board_allocations |-> allocs, hole_strengths |-> strengths]
    ELSE LET best == ScanPairs(my_cards, table, 1, 2, <<>>, 0)
             allocs2 == [allocs EXCEPT ![3 - k] = best.temp_cards]
             strengths2 == [strengths EXCEPT ![3 - k] = best.max_strength_hole]
         IN  IF best.error # "none"
             THEN [error |-> best.error, board_allocations |-> allocs,
                   hole_strengths |-> strengths]
             ELSE IF Len(best.temp_cards) = 0
             THEN [error |-> "IndexError", board_allocations |-> allocs2,
                   hole_strengths |-> strengths2]
             ELSE AllocPasses(k + 1,
                              Remove(Remove(my_cards, best.temp_cards[1]), best.temp_cards[2]),
                              table, allocs2, strengths2)

\* Player.allocate_cards (player.py:130-159)
allocate_cards(my_cards, table, allocs, strengths) ==
    AllocPasses(0, sort_cards_by_rank(my_cards), table, allocs, strengths)

\* the cards the engine deals from in the model
Deck == {<<"A", "s">>, <<"A", "h">>, <<"K", "d">>, <<"K", "s">>,
         <<"2", "c">>, <<"2", "d">>, <<"Q", "s">>}

DeckRanks == {c[1] : c \in Deck}

\* the canonical keys of all two-card hands over the deck's ranks
Keys == {<<r1, r2, s>> \in DeckRanks \X DeckRanks \X {"s", "o"} :
            /\ RANK_DICT[r1] >= RANK_DICT[r2]
            /\ (r1 = r2 => s = "o")}

\* contents of hole_strengths.csv, in thousandths.  "real": pairs from 0.50
\* (22) to 0.86 (AA), unpaired hands by high and low card with a bonus when
\* suited; "flat": every hand 0.5; "unpaired0": unpaired hands 0.0;
\* "zero": every hand 0.0; "partial": the real values without the row of
\* the suited ace-queen
TableNames == {"real", "flat", "unpaired0", "zero", "partial"}

\* the keys a table has a row for
TableKeys(name) == IF name = "partial" THEN Keys \ {<<"A", "Q", "s">>} ELSE Keys

Table(name) ==
    [key \in TableKeys(name) |->
        LET hi == RANK_DICT[key[1]]
            lo == RANK_DICT[key[2]]
            real == IF hi = lo THEN 500 + 30 * (hi - 2)
                    ELSE 300 + 20 * (hi - 2) + 5 * (lo - 2)
                             + (IF key[3] = "s" THEN 30 ELSE 0)
        IN  CASE name = "real"      -> real
              [] name = "flat"      -> 500
              [] name = "unpaired0" -> IF hi = lo THEN real ELSE 0
              [] name = "zero"      -> 0
              [] OTHER              -> real]

\* the six-card hands the engine can deal: six distinct cards in any order
Deals == {cs \in [1..6 -> Deck] : \A i, j \in 1..6 : i # j => cs[i] # cs[j]}

\* the engine starts the round and calls handle_new_round with the six cards
EngineNewRound ==
    /\ call.op = "none"
    /\ last.op = "init"
    /\ \E cs \in Deals : call' = [op |-> "handle_new_round", my_cards |-> cs]
    /\ round_num' = round_num + 1
    /\ UNCHANGED <<tunerVars, allocVars, starting_strengths, ret, last, baseline>>

\* Player.handle_new_round (player.py:305-324)
HandleNewRound ==
    /\ call.op = "handle_new_round"
    /\ LET r == allocate_cards(call.my_cards, starting_strengths,
                               board_allocations, hole_strengths)
       IN  /\ board_allocations' = r.board_allocations
           /\ hole_strengths' = r.hole_strengths
           /\ ret' = [op |-> "handle_new_round", error |-> r.error]
    /\ last' = [op |-> "handle_new_round", my_cards |-> call.my_cards]
    /\ call' = NoCall
    /\ UNCHANGED <<tunerVars, starting_strengths, round_num, baseline>>

InitA == InitTuner /\ InitIdle /\ \E name \in TableNames : starting_strengths = Table(name)

NextAlloc == EngineNewRound \/ HandleNewRound

\* the first round of a game: one deal, one allocation
SpecAlloc == InitA /\ [][NextAlloc]_vars

---------------------------------------------------------------------------
(* allocate_cards on a card list that is not six distinct cards *)

\* the deck in a fixed order
DeckOrder == <<<<"A", "s">>, <<"A", "h">>, <<"K", "d">>, <<"K", "s">>,
               <<"2", "c">>, <<"2", "d">>, <<"Q", "s">>>>

\* the deck without its k-th card: six distinct cards
Without(k) == [i \in 1..6 |-> IF i < k THEN DeckOrder[i] ELSE DeckOrder[i + 1]]

\* card lists that break the precondition: fewer than six cards, seven
\* distinct cards, six cards one of which repeats another
BadDeals ==
    {SubSeq(Without(k), 1, n) : k \in 1..7, n \in 0..5}
        \cup {Without(k) \o <<DeckOrder[k]>> : k \in 1..7}
        \cup ({[Without(k) EXCEPT ![i] = Without(k)[j]] :
                  k \in 1..7, i \in 1..6, j \in 1..6} \ {Without(k) : k \in 1..7})

\* handle_new_round is called with such a list
EngineBadDeal ==
    /\ call.op = "none"
    /\ last.op = "init"
    /\ \E cs \in BadDeals : call' = [op |-> "handle_new_round", my_cards |-> cs]
    /\ round_num' = round_num + 1
    /\ UNCHANGED <<tunerVars, allocVars, starting_strengths, ret, last, baseline>>

NextBadDeal == EngineBadDeal \/ HandleNewRound

SpecBadDeal == InitA /\ [][NextBadDeal]_vars

---------------------------------------------------------------------------
(* The engine's side of get_actions: RoundState.legal_actions and            *)
(* BoardState.raise_bounds of the skeleton the bot imports (player.py:4-6)   *)

BIG_BLIND == 2

Min(a, b) == IF a < b THEN a ELSE b

Max(a, b) == IF a > b THEN a ELSE b

\* a board as get_actions sees it: kind is "assign" (no hand assigned yet),
\* "terminal" (TerminalState), "settled" or "active" (BoardState); pips are
\* <<mine, opponent's>>; pot is the pot before this betting round
Board(kind, pips, pot) == [kind |-> kind, pips |-> pips, pot |-> pot]

\* the legal actions of one board; stacks are <<mine, opponent's>>
legal_actions(b, stacks) ==
    LET continue_cost == b.pips[2] - b.pips[1]
    IN  CASE b.kind = "terminal" -> {"Check"}
          [] b.kind = "assign"   -> {"Assign"}
          [] b.kind = "settled"  -> {"Check"}
          [] OTHER ->
               IF continue_cost = 0
               THEN (IF stacks[1] = 0 \/ stacks[2] = 0 THEN {"Check"}
                     ELSE {"Check", "Raise"})
               ELSE (IF continue_cost = stacks[1] \/ stacks[2] = 0
                     THEN {"Fold", "Call"}
                     ELSE {"Fold", "Call", "Raise"})

\* <<min_raise, max_raise>> of one board
raise_bounds(b, stacks) ==
    LET continue_cost == b.pips[2] - b.pips[1]
        max_contribution == Min(stacks[1], stacks[2] + continue_cost)
        min_contribution == Min(max_contribution,
                                continue_cost + Max(continue_cost, BIG_BLIND))
    IN  <<b.pips[1] + min_contribution, b.pips[1] + max_contribution>>

---------------------------------------------------------------------------
(* Betting policy: Player.get_actions *)

INTIMIDATION_THRESHOLD == 0

\* unit of the fixed-point exponential: 1/ExpScale
ExpScale == 10 * Scale

\* number of terms of the exponential series
ExpTerms == 12

\* sum of the series x^n/n! from term n on, all in units of 1/ExpScale
RECURSIVE ExpSeries(_, _, _)
ExpSeries(x, n, term) ==
    IF n > ExpTerms THEN 0
    ELSE term + ExpSeries(x, n + 1, RoundDiv(term * x, n * ExpScale))

\* math.exp(x), x and the result in units of 1/ExpScale
Exp(x) == ExpSeries(x, 1, ExpScale)

\* the raise amount before clamping (player.py:412-430); table_strength is
\* starting_strengths[key of the board's hand], strength the board's strength
RaiseCandidate(street, my_pip, board_cont_cost, strength, table_strength) ==
    IF street < 3
    THEN (IF table_strength > RAISE_MIN_STR.pre
          THEN TruncDiv((my_pip + board_cont_cost) * Scale + (strength - 500) * 10, Scale)
          ELSE 0)
    ELSE (IF strength > RAISE_MIN_STR.post
          THEN LET x == RoundDiv(RAISE_VALUES.exp * (strength * 1000 - 321875),
                                 100 * Scale)
               IN  TruncDiv((my_pip + board_cont_cost) * ExpScale
                               + street * street * Exp(x)
                               - RAISE_VALUES.const * 10, ExpScale)
          ELSE 0)

\* variant of ClampRaise: the candidate is used as computed
ClampRaiseUnclamped(min_raise, max_raise, raise_amount) == raise_amount

\* make sure we have a valid raise (player.py:433-434)
ClampRaise(min_raise, max_raise, raise_amount) ==
    Min(max_raise, Max(min_raise, raise_amount))

NoAction == [type |-> "None", amount |-> 0, cards |-> <<>>]
\* variant of AssignAction: the action carries no cards
AssignActionNoCards(cards) == [type |-> "Assign", amount |-> 0, cards |-> <<>>]
AssignAction(cards) == [type |-> "Assign", amount |-> 0, cards |-> cards]
CheckAction == [type |-> "Check", amount |-> 0, cards |-> <<>>]
CallAction == [type |-> "Call", amount |-> 0, cards |-> <<>>]
FoldAction == [type |-> "Fold", amount |-> 0, cards |-> <<>>]
RaiseAction(amount) == [type |-> "Raise", amount |-> amount, cards |-> <<>>]

\* variant of Commit: neither the raise nor the call is checked against the budget
CommitUnbudgeted(legal, raise_amount, my_pip, board_cont_cost, budget) ==
    LET raise_cost == raise_amount - my_pip
    IN  IF "Raise" \in legal /\ raise_cost # 0
        THEN [action |-> RaiseAction(raise_amount), cost |-> raise_cost]
        ELSE IF "Call" \in legal
        THEN [action |-> CallAction, cost |-> board_cont_cost]
        ELSE IF "Check" \in legal
        THEN [action |-> CheckAction, cost |-> 0]
        ELSE [action |-> FoldAction, cost |-> 0]

\* variant of Commit: the raise is not checked against the legal actions
CommitIgnoringLegal(legal, raise_amount, my_pip, board_cont_cost, budget) ==
    LET raise_cost == raise_amount - my_pip
    IN  IF raise_cost <= budget /\ raise_cost # 0
        THEN [action |-> RaiseAction(raise_amount), cost |-> raise_cost]
        ELSE IF "Call" \in legal /\ board_cont_cost <= budget
        THEN [action |-> CallAction, cost |-> board_cont_cost]
        ELSE IF "Check" \in legal
        THEN [action |-> CheckAction, cost |-> 0]
        ELSE [action |-> FoldAction, cost |-> 0]

\* variant of Commit: the call is tried before the raise
CommitCallFirst(legal, raise_amount, my_pip, board_cont_cost, budget) ==
    LET raise_cost == raise_amount - my_pip
    IN  IF "Call" \in legal /\ board_cont_cost <= budget
        THEN [action |-> CallAction, cost |-> board_cont_cost]
        ELSE IF "Raise" \in legal /\ raise_cost <= budget /\ raise_cost # 0
        THEN [action |-> RaiseAction(raise_amount), cost |-> raise_cost]
        ELSE IF "Check" \in legal
        THEN [action |-> CheckAction, cost |-> 0]
        ELSE [action |-> FoldAction, cost |-> 0]

\* the commit action and its cost (player.py:436-452); budget is
\* my_stack - net_cost
Commit(legal, raise_amount, my_pip, board_cont_cost, budget) ==
    LET raise_cost == raise_amount - my_pip
    IN  IF "Raise" \in legal /\ raise_cost <= budget /\ raise_cost # 0
        THEN [action |-> RaiseAction(raise_amount), cost |-> raise_cost]
        ELSE IF "Call" \in legal /\ board_cont_cost <= budget
        THEN [action |-> CallAction, cost |-> board_cont_cost]
        ELSE IF "Check" \in legal
        THEN [action |-> CheckAction, cost |-> 0]
        ELSE [action |-> FoldAction, cost |-> 0]

\* variant of Intimidated: the discounted strength is not floored at zero
IntimidatedUnfloored(street, board_cont_cost, strength) ==
    IF board_cont_cost > INTIMIDATION_THRESHOLD
    THEN (IF street = 0 /\ board_cont_cost > 20
          THEN strength
          ELSE strength - RoundDiv(50 * ISqrt((board_cont_cost - INTIMIDATION_THRESHOLD)
                                                 * strength * Scale), Scale))
    ELSE strength

\* the strength after the intimidation discount (player.py:455-463)
Intimidated(street, board_cont_cost, strength) ==
    IF board_cont_cost > INTIMIDATION_THRESHOLD
    THEN (IF street = 0 /\ board_cont_cost > 20
          THEN strength
          ELSE LET intimidation ==
                       RoundDiv(50 * ISqrt((board_cont_cost - INTIMIDATION_THRESHOLD)
                                               * strength * Scale), Scale)
               IN  Max(0, strength - intimidation))
    ELSE strength

\* variant of PositiveEV: the pot odds are never consulted
PositiveEVAlways(strength, board_cont_cost, pot_total) == TRUE

\* strength >= board_cont_cost / (pot_total + board_cont_cost) (player.py:465-467)
PositiveEV(strength, board_cont_cost, pot_total) ==
    strength * (pot_total + board_cont_cost) >= board_cont_cost * Scale

\* variant of RaiseCoin: the draw is compared with the strength itself
RaiseCoinUnscaled(r, strength) == r < strength

\* random.random() < 1.4 * strength (player.py:468, 492)
RaiseCoin(r, strength) == 10 * r < 14 * strength

\* the tunable cutoffs of the current phase (player.py:413, 420)
RaiseMin(street) == IF street < 3 THEN RAISE_MIN_STR.pre ELSE RAISE_MIN_STR.post

CallMin(street) == IF street < 3 THEN CALL_MIN_STR.pre ELSE CALL_MIN_STR.post

\* variant of Respond: the call is made whether or not the stack covers it
RespondUnbudgeted(street, board_cont_cost, pot_total, strength, r, commit, budget) ==
    LET preintimidation_strength == strength
        adjusted == Intimidated(street, board_cont_cost, strength)
    IN  IF PositiveEV(adjusted, board_cont_cost, pot_total)
        THEN IF RaiseCoin(r, adjusted) /\ preintimidation_strength > RaiseMin(street)
             THEN commit
             ELSE IF \/ /\ board_cont_cost - INTIMIDATION_THRESHOLD < 6 * 6
                        /\ preintimidation_strength > CallMin(street)
                     \/ preintimidation_strength > RaiseMin(street)
             THEN [action |-> CallAction, cost |-> board_cont_cost]
             ELSE [action |-> FoldAction, cost |-> 0]
        ELSE [action |-> FoldAction, cost |-> 0]

\* variant of Respond: a call is not added to net_cost
RespondCallUncounted(street, board_cont_cost, pot_total, strength, r, commit, budget) ==
    LET preintimidation_strength == strength
        adjusted == Intimidated(street, board_cont_cost, strength)
    IN  IF PositiveEV(adjusted, board_cont_cost, pot_total)
        THEN IF RaiseCoin(r, adjusted) /\ preintimidation_strength > RaiseMin(street)
             THEN commit
             ELSE IF \/ /\ board_cont_cost - INTIMIDATION_THRESHOLD < 6 * 6
                        /\ preintimidation_strength > CallMin(street)
                     \/ preintimidation_strength > RaiseMin(street)
             THEN (IF board_cont_cost <= budget
                   THEN [action |-> CallAction, cost |-> 0]
                   ELSE [action |-> FoldAction, cost |-> 0])
             ELSE [action |-> FoldAction, cost |-> 0]
        ELSE [action |-> FoldAction, cost |-> 0]

\* variant of Respond: without the raise, the call depends on the call cutoff alone
RespondByCallCutoff(street, board_cont_cost, pot_total, strength, r, commit, budget) ==
    LET preintimidation_strength == strength
        adjusted == Intimidated(street, board_cont_cost, strength)
    IN  IF PositiveEV(adjusted, board_cont_cost, pot_total)
        THEN IF RaiseCoin(r, adjusted) /\ preintimidation_strength > RaiseMin(street)
             THEN commit
             ELSE IF preintimidation_strength > CallMin(street)
             THEN (IF board_cont_cost <= budget
                   THEN [action |-> CallAction, cost |-> board_cont_cost]
                   ELSE [action |-> FoldAction, cost |-> 0])
             ELSE [action |-> FoldAction, cost |-> 0]
        ELSE [action |-> FoldAction, cost |-> 0]

\* the opponent raised, we must respond (player.py:454-489)
Respond(street, board_cont_cost, pot_total, strength, r, commit, budget) ==
    LET preintimidation_strength == strength
        adjusted == Intimidated(street, board_cont_cost, strength)
    IN  IF PositiveEV(adjusted, board_cont_cost, pot_total)
        THEN IF RaiseCoin(r, adjusted) /\ preintimidation_strength > RaiseMin(street)
             THEN commit
             ELSE IF \/ /\ board_cont_cost - INTIMIDATION_THRESHOLD < 6 * 6
                        /\ preintimidation_strength > CallMin(street)
                     \/ preintimidation_strength > RaiseMin(street)
             THEN (IF board_cont_cost <= budget
                   THEN [action |-> CallAction, cost |-> board_cont_cost]
                   ELSE [action |-> FoldAction, cost |-> 0])
             ELSE [action |-> FoldAction, cost |-> 0]
        ELSE [action |-> FoldAction, cost |-> 0]

\* variant of Initiative: the draw alone decides on the raise
InitiativeAnyStrength(street, strength, r, commit) ==
    IF RaiseCoin(r, strength)
    THEN commit
    ELSE [action |-> CheckAction, cost |-> 0]

\* variant of Initiative: no action is chosen when the raise is not taken
InitiativeWithoutCheck(street, strength, r, commit) ==
    IF RaiseCoin(r, strength) /\ strength > RaiseMin(street)
    THEN commit
    ELSE [action |-> NoAction, cost |-> 0]

\* board_cont_cost == 0, we control the action (player.py:491-498)
Initiative(street, strength, r, commit) ==
    IF RaiseCoin(r, strength) /\ strength > RaiseMin(street)
    THEN commit
    ELSE [action |-> CheckAction, cost |-> 0]

\* one iteration of the loop over the boards (player.py:398-498): the action
\* for board i (1..3) and what it adds to net_cost.  sample is what
\* public_eval returns for the board, r its random.random() value.
BoardAction(i, b, street, stacks, net_cost, sample, r) ==
    LET cards == board_allocations[i]
        legal == legal_actions(b, stacks)
        my_pip == IF b.kind = "terminal" THEN 0 ELSE b.pips[1]
        opp_pip == IF b.kind = "terminal" THEN 0 ELSE b.pips[2]
        board_cont_cost == opp_pip - my_pip
        pot_total == my_pip + opp_pip + b.pot
        bounds == raise_bounds(b, stacks)
        strength == IF street < 3 THEN hole_strengths[i] ELSE sample
        table_strength == IF street < 3
                          THEN starting_strengths[hole_list_to_key(cards)] ELSE 0
        raise_amount == ClampRaise(bounds[1], bounds[2],
                            RaiseCandidate(street, my_pip, board_cont_cost,
                                           strength, table_strength))
        commit == Commit(legal, raise_amount, my_pip, board_cont_cost,
                         stacks[1] - net_cost)
    IN  IF "Assign" \in legal
        THEN [action |-> AssignAction(cards), cost |-> 0]
        ELSE IF b.kind = "terminal"
        THEN [action |-> CheckAction, cost |-> 0]
        ELSE IF board_cont_cost > 0
        THEN Respond(street, board_cont_cost, pot_total, strength, r, commit,
                     stacks[1] - net_cost)
        ELSE Initiative(street, strength, r, commit)

\* the loop over boards i..3 (player.py:397-500): <<my_actions, net_cost>>
RECURSIVE ActionsFrom(_, _, _, _, _, _, _)
ActionsFrom(i, boards, street, stacks, samples, rs, acc) ==
    IF i > 3 THEN acc
    ELSE LET step == BoardAction(i, boards[i], street, stacks, acc.net_cost,
                                 samples[i], rs[i])
         IN  ActionsFrom(i + 1, boards, street, stacks, samples, rs,
                         [my_actions |-> [acc.my_actions EXCEPT ![i] = step.action],
                          net_cost   |-> acc.net_cost + step.cost])

\* Player.get_actions (player.py:371-500)
get_actions(boards, street, stacks, samples, rs) ==
    ActionsFrom(1, boards, street, stacks, samples, rs,
                [my_actions |-> <<NoAction, NoAction, NoAction>>, net_cost |-> 0])

\* streets: pre-flop, flop, turn, river
Streets == {0, 3, 4, 5}

\* <<my stack, opponent's stack>> at the start of the call
StackPairs == {<<4, 190>>, <<45, 150>>, <<190, 190>>, <<100, 0>>}

\* win probabilities public_eval returns, in thousandths
StrengthSamples == {50, 650, 800}

\* the situations of one board while betting: pre-flop the pips start from the
\* blinds and the pot is empty, later the pips start from 0 on a pot
BettingBoards(street) ==
    IF street < 3
    THEN {Board("terminal", <<0, 0>>, 0), Board("settled", <<2, 2>>, 0),
          Board("active", <<2, 2>>, 0), Board("active", <<1, 2>>, 0),
          Board("active", <<2, 6>>, 0), Board("active", <<2, 40>>, 0)}
    ELSE {Board("terminal", <<0, 0>>, 0),
          Board("active", <<0, 0>>, 100), Board("active", <<0, 4>>, 12),
          Board("active", <<0, 30>>, 4), Board("active", <<0, 40>>, 24)}

\* the board triples get_actions is called with: all three boards waiting for
\* their hand at the start of the round, or three boards in or after betting,
\* none asking for more than the whole stack
BoardTriples(street, stacks) ==
    (IF street = 0
     THEN {[i \in 1..3 |-> Board("assign", <<0, 0>>, 0)]} ELSE {})
    \cup {bs \in [1..3 -> BettingBoards(street)] :
             \A i \in 1..3 : bs[i].pips[2] - bs[i].pips[1] <= stacks[1]}

\* the engine asks for the three actions
EngineGetActions ==
    /\ call.op = "none"
    /\ last.op = "init"
    /\ \E street \in Streets, stacks \in StackPairs :
          \E boards \in BoardTriples(street, stacks) :
             call' = [op |-> "get_actions", street |-> street, stacks |-> stacks,
                      boards |-> boards]
    /\ UNCHANGED <<tunerVars, allocVars, starting_strengths, round_num, ret, last, baseline>>

\* whether the loop body reaches the strength and coin of a board
Decides(b) == b.kind \in {"settled", "active"}

\* what public_eval can return for the boards of a call (consulted after the flop)
SampleChoices(boards, street) ==
    {ss \in [1..3 -> StrengthSamples \cup {0}] :
        \A i \in 1..3 : (ss[i] = 0) <=> ~(Decides(boards[i]) /\ street >= 3)}

\* what random.random() can return for the boards of a call
CoinChoices(boards) ==
    {rs \in [1..3 -> RandomDraws] : \A i \in 1..3 : ~Decides(boards[i]) => rs[i] = 0}

\* Player.get_actions serves the call
HandleGetActions ==
    /\ call.op = "get_actions"
    /\ \E samples \in SampleChoices(call.boards, call.street),
          rs \in CoinChoices(call.boards) :
          /\ ret' = [op |-> "get_actions"] @@
                    get_actions(call.boards, call.street, call.stacks, samples, rs)
          /\ last' = [op |-> "get_actions", street |-> call.street,
                      stacks |-> call.stacks, boards |-> call.boards,
                      samples |-> samples, rs |-> rs]
    /\ call' = NoCall
    /\ UNCHANGED <<tunerVars, allocVars, starting_strengths, round_num, baseline>>

\* the hand dealt in the round the calls of get_actions belong to
ActionsDeal == <<<<"A", "s">>, <<"K", "d">>, <<"K", "s">>, <<"2", "c">>, <<"2", "d">>, <<"Q", "s">>>>

\* a round in progress: the table is loaded and handle_new_round has allocated
InitActions ==
    /\ InitTuner
    /\ starting_strengths = Table("real")
    /\ LET r == allocate_cards(ActionsDeal, Table("real"),
                               <<<<>>, <<>>, <<>>>>, <<0, 0, 0>>)
       IN  /\ board_allocations = r.board_allocations
           /\ hole_strengths = r.hole_strengths
    /\ round_num = 1
    /\ call = NoCall
    /\ ret = [op |-> "none"]
    /\ last = [op |-> "init"]

NextActions == EngineGetActions \/ HandleGetActions

\* one call of get_actions in a round in progress
SpecActions == InitActions /\ [][NextActions]_vars

---------------------------------------------------------------------------
(* Specification of the tuner: rounds end one after another *)

InitT == InitTuner /\ InitIdle /\ starting_strengths = Table("real")

SpecTuner == InitT /\ [][NextTuner]_vars

---------------------------------------------------------------------------
(* Equity estimator: Player.public_eval *)

\* iterations of the Monte Carlo loop in the model (iters)
MaxIters == 6

\* how one sampled showdown compares: my_strength > opp_strength, equal, or less
Outcomes == {"win", "tie", "loss"}

\* variant of ScoreAfter: a tie scores like a win
ScoreAfterTieAsWin(score, outcome) ==
    CASE outcome = "win" -> score + 2
      [] outcome = "tie" -> score + 2
      [] OTHER           -> score

\* the running score after one iteration (player.py:185-190)
ScoreAfter(score, outcome) ==
    CASE outcome = "win" -> score + 2
      [] outcome = "tie" -> score + 1
      [] OTHER           -> score

\* score / (2 * iters), in thousandths (player.py:192)
EvalResult(score, iters) == RoundDiv(score * Scale, 2 * iters)

\* the 52 cards, rank-major (player.py:14-21)
NUMS == <<"A", "2", "3", "4", "5", "6", "7", "8", "9", "T", "J", "Q", "K">>
SUITS == <<"s", "c", "d", "h">>
FULL_DECK ==
    [k \in 1..(Len(NUMS) * Len(SUITS)) |->
        <<NUMS[((k - 1) \div Len(SUITS)) + 1], SUITS[((k - 1) % Len(SUITS)) + 1]>>]

\* the cards of a list, as a set
SetOf(cs) == {cs[i] : i \in DOMAIN cs}

\* set(FULL_DECK) - set(private) - set(public) (player.py:173-175), listed in
\* the order random.sample walks it
remaining_cards(private, public) ==
    SelectSeq(FULL_DECK, LAMBDA c : c \notin SetOf(private) /\ c \notin SetOf(public))

\* a list without its element at position idx
RemoveAt(pool, idx) == SubSeq(pool, 1, idx - 1) \o SubSeq(pool, idx + 1, Len(pool))

\* variant of Sample: a chosen card stays in the pool
RECURSIVE SampleWithReplacement(_, _, _)
SampleWithReplacement(pool, k, picks) ==
    IF k = 0 THEN <<>>
    ELSE <<pool[(picks[1] % Len(pool)) + 1]>>
             \o SampleWithReplacement(pool, k - 1, Tail(picks))

\* random.sample(pool, k) for k <= len(pool): k choices without replacement;
\* picks are the random numbers that select a position in what is left
RECURSIVE Sample(_, _, _)
Sample(pool, k, picks) ==
    IF k = 0 THEN <<>>
    ELSE LET idx == (picks[1] % Len(pool)) + 1
         IN  <<pool[idx]>> \o Sample(RemoveAt(pool, idx), k - 1, Tail(picks))

\* the random numbers of one call of random.sample in the model
SamplePicks == {<<0, 0, 0, 0, 0, 0, 0>>,
                <<51, 50, 49, 48, 47, 46, 45>>,
                <<3, 14, 15, 9, 26, 5, 35>>}

\* the five community cards of a board, in the order they are revealed
CommunityCards == <<<<"7", "h">>, <<"8", "h">>, <<"9", "c">>, <<"T", "d">>, <<"3", "s">>>>

\* public_eval is called for the hand of one board with the community cards
\* visible on the street, board_cards[i][:street] (player.py:421; get_actions
\* calls it on streets 3, 4 and 5, street 0 is the case of no community card):
\* score = 0 before the loop
CallPublicEval ==
    /\ call.op = "none"
    /\ last.op = "init"
    /\ \E iters \in 1..MaxIters, i \in 1..3, street \in Streets :
          call' = [op |-> "public_eval", iters |-> iters, done |-> 0, score |-> 0,
                   wins |-> 0, ties |-> 0,
                   private |-> board_allocations[i],
                   public |-> SubSeq(CommunityCards, 1, street),
                   street |-> street, draw |-> <<>>, error |-> FALSE]
    /\ UNCHANGED <<tunerVars, allocVars, starting_strengths, round_num, ret, last, baseline>>

\* one iteration of the loop (player.py:177-190): a sample is drawn (draw keeps
\* it; random.sample raises when the sample is larger than the population),
\* the two seven-card hands are evaluated and compared; wins and ties count
\* the outcomes so far
EvalIteration ==
    /\ call.op = "public_eval"
    /\ call.done < call.iters
    /\ ~call.error
    /\ LET _PUB == 5 - call.street
           _OPP == 2
           pool == remaining_cards(call.private, call.public)
       IN  IF _OPP + _PUB > Len(pool) \/ _OPP + _PUB < 0
           THEN call' = [call EXCEPT !.error = TRUE]
           ELSE \E outcome \in Outcomes, picks \in SamplePicks :
                   call' = [call EXCEPT
                               !.draw = Sample(pool, _OPP + _PUB, picks),
                               !.done = @ + 1,
                               !.score = ScoreAfter(@, outcome),
                               !.wins = IF outcome = "win" THEN @ + 1 ELSE @,
                               !.ties = IF outcome = "tie" THEN @ + 1 ELSE @]
    /\ UNCHANGED <<tunerVars, allocVars, starting_strengths, round_num, ret, last, baseline>>

\* the loop is over: return score / (2 * iters) (player.py:192)
EvalReturn ==
    /\ call.op = "public_eval"
    /\ call.done = call.iters \/ call.error
    /\ ret' = [op |-> "public_eval", value |-> EvalResult(call.score, call.iters),
               error |-> call.error]
    /\ last' = [op |-> "public_eval", iters |-> call.iters, score |-> call.score,
                wins |-> call.wins, ties |-> call.ties]
    /\ call' = NoCall
    /\ UNCHANGED <<tunerVars, allocVars, starting_strengths, round_num, baseline>>

NextEval == CallPublicEval \/ EvalIteration \/ EvalReturn

\* one call of public_eval in a round in progress
SpecEval == InitActions /\ [][NextEval]_vars

---------------------------------------------------------------------------
(* Specification of a game: rounds of handle_new_round, get_actions and     *)
(* handle_round_over in the order the engine calls them                      *)

\* rounds of a game in the model
GameRounds == 6

\* the hands dealt in a game
GameDeals == {ActionsDeal,
              <<<<"A", "s">>, <<"A", "h">>, <<"K", "d">>, <<"K", "s">>, <<"2", "c">>, <<"2", "d">>>>}

\* the bankroll changes a round of a game can end with
GameDeltas == {-6, 18}

\* the stacks at the calls of get_actions in a game
GameStacks == {<<190, 190>>, <<45, 150>>}

\* the boards of the calls of get_actions in a game: the assignment at the
\* start of the round, then the blinds, then one board left on the river
GameTriples(street) ==
    CASE street = 0 -> {[i \in 1..3 |-> Board("assign", <<0, 0>>, 0)],
                        [i \in 1..3 |-> Board("active", <<1, 2>>, 0)]}
      [] OTHER      -> {<<Board("terminal", <<0, 0>>, 0), Board("terminal", <<0, 0>>, 0),
                          Board("active", <<0, 4>>, 12)>>}

\* the engine starts a round
GameNewRound ==
    /\ call.op = "none"
    /\ last.op \in {"init", "handle_round_over"}
    /\ round_num < GameRounds
    /\ \E cs \in GameDeals : call' = [op |-> "handle_new_round", my_cards |-> cs]
    /\ round_num' = round_num + 1
    /\ UNCHANGED <<tunerVars, allocVars, starting_strengths, ret, last, baseline>>

\* the engine asks for actions: first for the assignment, then for bets
GameGetActions ==
    /\ call.op = "none"
    /\ last.op \in {"handle_new_round", "get_actions"}
    /\ \E street \in {0, 5}, stacks \in GameStacks :
          \E boards \in GameTriples(street) :
             /\ (boards[1].kind = "assign") <=> (last.op = "handle_new_round")
             /\ last.op = "get_actions" => street >= last.street
             /\ call' = [op |-> "get_actions", street |-> street, stacks |-> stacks,
                         boards |-> boards]
    /\ UNCHANGED <<tunerVars, allocVars, starting_strengths, round_num, ret, last, baseline>>

\* the engine ends the round
GameRoundOver ==
    /\ call.op = "none"
    /\ last.op = "get_actions"
    /\ \E d \in GameDeltas : call' = [op |-> "handle_round_over", my_delta |-> d]
    /\ UNCHANGED <<tunerVars, allocVars, starting_strengths, round_num, ret, last, baseline>>

NextGame ==
    \/ GameNewRound \/ HandleNewRound
    \/ GameGetActions \/ HandleGetActions
    \/ GameRoundOver \/ HandleRoundOver

SpecGame == InitT /\ [][NextGame]_vars

---------------------------------------------------------------------------
(* The pair-hunt bot (pair_hunt_all_in_sorting_bot/player.py).  It has no     *)
(* tuner and no table: those variables keep their initial values.             *)
(* board_allocations stands for its self.allocations; self.strong_hole, which *)
(* is written and never read, is left out.                                    *)

\* the rank characters in the order sorted() puts them (by code point)
RankChars == <<"2", "3", "4", "5", "6", "7", "8", "9", "A", "J", "K", "Q", "T">>
RankOrd(rank) == CHOOSE k \in DOMAIN RankChars : RankChars[k] = rank

\* the keys of the dict ranks, in insertion order (player.py:113-121)
RECURSIVE RanksSeen(_)
RanksSeen(my_cards) ==
    IF my_cards = <<>> THEN <<>>
    ELSE LET front == RanksSeen(SubSeq(my_cards, 1, Len(my_cards) - 1))
             rank == my_cards[Len(my_cards)][1]
         IN  IF rank \in SetOf(front) THEN front ELSE Append(front, rank)

\* ranks[rank] and suits[suit] (player.py:113-127)
CardsOfRank(my_cards, rank) == SelectSeq(my_cards, LAMBDA c : c[1] = rank)
CardsOfSuit(my_cards, suit) == SelectSeq(my_cards, LAMBDA c : c[2] = suit)

\* suit_drawn and suit_undrawn of the cards of one rank (player.py:140-147)
SuitDrawn(cards, my_cards) ==
    SelectSeq(cards, LAMBDA c : Len(CardsOfSuit(my_cards, c[2])) > 1)
SuitUndrawn(cards, my_cards) ==
    SelectSeq(cards, LAMBDA c : ~(Len(CardsOfSuit(my_cards, c[2])) > 1))

\* one pass of the loop over ranks (player.py:133-165)
ClassifyRank(acc, cards, my_cards) ==
    LET ordered_cards == SuitDrawn(cards, my_cards) \o SuitUndrawn(cards, my_cards)
    IN  CASE Len(cards) = 2 -> [acc EXCEPT !.pairs = @ \o cards]
          [] Len(cards) = 3 -> [acc EXCEPT !.thirds = Append(@, ordered_cards[1]),
                                           !.pairs = @ \o <<ordered_cards[2], ordered_cards[3]>>]
          [] Len(cards) = 4 -> [acc EXCEPT !.pairs = @ \o ordered_cards]
          [] OTHER          -> [acc EXCEPT !.singles = @ \o cards]

\* the loop over ranks from position k on (player.py:133-165)
RECURSIVE Classify(_, _, _, _)
Classify(k, seen, my_cards, acc) ==
    IF k > Len(seen) THEN acc
    ELSE Classify(k + 1, seen, my_cards,
                  ClassifyRank(acc, CardsOfRank(my_cards, seen[k]), my_cards))

\* the while loop that moves the singles out in the order of their sorted
\* ranks (player.py:167-175)
RECURSIVE OrderSingles(_)
OrderSingles(singles) ==
    IF singles = <<>> THEN <<>>
    ELSE LET lowest == CHOOSE i \in DOMAIN singles :
                          \A j \in DOMAIN singles :
                              \/ RankOrd(singles[i][1]) < RankOrd(singles[j][1])
                              \/ RankOrd(singles[i][1]) = RankOrd(singles[j][1]) /\ i <= j
         IN  <<singles[lowest]>> \o OrderSingles(RemoveAt(singles, lowest))

\* variant of combined_allocation: the pairs come first
combined_allocation_pairs_first(ordered_singles, pairs) == pairs \o ordered_singles

\* ordered_singles + pairs: strongest hands at the end (player.py:186)
combined_allocation(ordered_singles, pairs) == ordered_singles \o pairs

\* Player.allocate_cards of the pair-hunt bot (player.py:100-190): the boards
\* are filled in order, and a board the list is too short for ends the call
\* with IndexError
pair_hunt_allocate_cards(my_cards, allocations) ==
    LET sorted == Classify(1, RanksSeen(my_cards), my_cards,
                           [singles |-> <<>>, pairs |-> <<>>, thirds |-> <<>>])
        ordered_singles == sorted.thirds \o OrderSingles(sorted.singles)
        combined == combined_allocation(ordered_singles, sorted.pairs)
        filled == Len(combined) \div 2
    IN  [error |-> filled < 3,
         allocations |-> [i \in 1..3 |->
                            IF i <= filled
                            THEN <<combined[2 * i - 1], combined[2 * i]>>
                            ELSE allocations[i]]]

\* the cards the deals of the pair-hunt bot are taken from: four of a rank,
\* three of a rank, two of a rank and three lone ranks
PairHuntDeck == <<<<"A", "s">>, <<"A", "c">>, <<"A", "d">>, <<"A", "h">>,
                  <<"K", "s">>, <<"K", "c">>, <<"K", "d">>,
                  <<"Q", "s">>, <<"Q", "c">>,
                  <<"J", "h">>, <<"9", "d">>, <<"2", "c">>>>

\* the members of a set of numbers in ascending order
RECURSIVE Ascending(_)
Ascending(S) ==
    IF S = {} THEN <<>>
    ELSE LET least == CHOOSE x \in S : \A y \in S : x <= y
         IN  <<least>> \o Ascending(S \ {least})

\* the orders in which the engine hands over six chosen cards
DealOrders == {<<1, 2, 3, 4, 5, 6>>, <<6, 5, 4, 3, 2, 1>>, <<2, 5, 1, 4, 6, 3>>}

\* the six-card hands of the pair-hunt round: any six cards of the deck, in
\* one of the orders
PairHuntDeals ==
    {[k \in 1..6 |-> PairHuntDeck[Ascending(S)[order[k]]]] :
        S \in {T \in SUBSET DOMAIN PairHuntDeck : Cardinality(T) = 6},
        order \in DealOrders}

\* the engine starts the round of the pair-hunt bot
PairHuntNewRound ==
    /\ call.op = "none"
    /\ last.op = "init"
    /\ \E cs \in PairHuntDeals : call' = [op |-> "pair_hunt_new_round", my_cards |-> cs]
    /\ round_num' = round_num + 1
    /\ UNCHANGED <<tunerVars, allocVars, starting_strengths, ret, last, baseline>>

\* Player.handle_new_round of the pair-hunt bot (player.py:218-238):
\* allocate_cards runs twice on the same cards; hole_strengths is not written
PairHuntHandleNewRound ==
    /\ call.op = "pair_hunt_new_round"
    /\ LET first == pair_hunt_allocate_cards(call.my_cards, board_allocations)
           second == pair_hunt_allocate_cards(call.my_cards, first.allocations)
       IN  /\ board_allocations' = second.allocations
           /\ ret' = [op |-> "pair_hunt_new_round", error |-> first.error \/ second.error]
    /\ last' = [op |-> "pair_hunt_new_round", my_cards |-> call.my_cards]
    /\ call' = NoCall
    /\ UNCHANGED <<tunerVars, hole_strengths, starting_strengths, round_num, baseline>>

\* the pair-hunt bot after __init__ (player.py:19-31)
InitPairHunt == InitTuner /\ InitIdle /\ starting_strengths = <<>>

NextPairHuntAlloc == PairHuntNewRound \/ PairHuntHandleNewRound

\* the first round of the pair-hunt bot: one deal, one allocation
SpecPairHuntAlloc == InitPairHunt /\ [][NextPairHuntAlloc]_vars

\* the raise the pair-hunt bot would make: 0.4 of the pot after a call
\* pre-flop, 0.75 of it later (player.py:312-315)
PairHuntRaiseAmount(street, my_pip, board_cont_cost, pot_total) ==
    TruncDiv((my_pip + board_cont_cost) * Scale
                 + (IF street < 3 THEN 400 ELSE 750) * (pot_total + board_cont_cost),
             Scale)

\* the commit action of the pair-hunt bot (player.py:322-336)
PairHuntCommit(legal, raise_amount, my_pip, board_cont_cost, budget) ==
    LET raise_cost == raise_amount - my_pip
    IN  IF "Raise" \in legal /\ raise_cost <= budget
        THEN [action |-> RaiseAction(raise_amount), cost |-> raise_cost]
        ELSE IF "Call" \in legal /\ board_cont_cost <= budget
        THEN [action |-> CallAction, cost |-> board_cont_cost]
        ELSE IF "Check" \in legal
        THEN [action |-> CheckAction, cost |-> 0]
        ELSE [action |-> FoldAction, cost |-> 0]

\* the fixed intimidation of the pair-hunt bot (player.py:341-343)
PairHuntIntimidated(board_cont_cost, strength) ==
    IF board_cont_cost > 5 THEN Max(0, strength - 150) ELSE strength

\* the opponent raised (player.py:339-363)
PairHuntRespond(board_cont_cost, pot_total, strength, r, commit, budget) ==
    LET adjusted == PairHuntIntimidated(board_cont_cost, strength)
    IN  IF PositiveEV(adjusted, board_cont_cost, pot_total)
        THEN IF adjusted > 500 /\ r < adjusted
             THEN commit
             ELSE IF board_cont_cost <= budget
             THEN [action |-> CallAction, cost |-> board_cont_cost]
             ELSE [action |-> FoldAction, cost |-> 0]
        ELSE [action |-> FoldAction, cost |-> 0]

\* variant of PairHuntInitiative: a draw equal to the strength also raises
PairHuntInitiativeInclusive(strength, r, commit) ==
    IF r <= strength THEN commit ELSE [action |-> CheckAction, cost |-> 0]

\* board_cont_cost == 0: random.random() < strength (player.py:365-373)
PairHuntInitiative(strength, r, commit) ==
    IF r < strength THEN commit ELSE [action |-> CheckAction, cost |-> 0]

\* one iteration of the loop over the boards (player.py:298-373)
PairHuntBoardAction(i, b, street, stacks, net_cost, r) ==
    LET legal == legal_actions(b, stacks)
        my_pip == IF b.kind = "terminal" THEN 0 ELSE b.pips[1]
        opp_pip == IF b.kind = "terminal" THEN 0 ELSE b.pips[2]
        board_cont_cost == opp_pip - my_pip
        pot_total == my_pip + opp_pip + b.pot
        bounds == raise_bounds(b, stacks)
        strength == hole_strengths[i]
        raise_amount == ClampRaise(bounds[1], bounds[2],
                            PairHuntRaiseAmount(street, my_pip, board_cont_cost, pot_total))
        commit == PairHuntCommit(legal, raise_amount, my_pip, board_cont_cost,
                                 stacks[1] - net_cost)
    IN  IF "Assign" \in legal
        THEN [action |-> AssignAction(board_allocations[i]), cost |-> 0]
        ELSE IF b.kind = "terminal"
        THEN [action |-> CheckAction, cost |-> 0]
        ELSE IF board_cont_cost > 0
        THEN PairHuntRespond(board_cont_cost, pot_total, strength, r, commit,
                             stacks[1] - net_cost)
        ELSE PairHuntInitiative(strength, r, commit)

\* the loop over boards i..3 (player.py:296-375)
RECURSIVE PairHuntActionsFrom(_, _, _, _, _, _)
PairHuntActionsFrom(i, boards, street, stacks, rs, acc) ==
    IF i > 3 THEN acc
    ELSE LET step == PairHuntBoardAction(i, boards[i], street, stacks, acc.net_cost, rs[i])
         IN  PairHuntActionsFrom(i + 1, boards, street, stacks, rs,
                                 [my_actions |-> [acc.my_actions EXCEPT ![i] = step.action],
                                  net_cost   |-> acc.net_cost + step.cost])

\* Player.get_actions of the pair-hunt bot (player.py:268-375)
pair_hunt_get_actions(boards, street, stacks, rs) ==
    PairHuntActionsFrom(1, boards, street, stacks, rs,
                        [my_actions |-> <<NoAction, NoAction, NoAction>>, net_cost |-> 0])

\* rounds of a game of the pair-hunt bot in the model
PairHuntRounds == 3

\* the hands dealt in a game of the pair-hunt bot
PairHuntGameDeals ==
    {<<<<"A", "s">>, <<"K", "d">>, <<"K", "s">>, <<"2", "c">>, <<"2", "d">>, <<"Q", "s">>>>,
     <<<<"A", "s">>, <<"A", "c">>, <<"A", "d">>, <<"K", "s">>, <<"9", "d">>, <<"2", "c">>>>}

\* the situations of one board in a game of the pair-hunt bot
PairHuntBoards(street) ==
    IF street < 3
    THEN {Board("active", <<1, 2>>, 0), Board("active", <<2, 2>>, 0),
          Board("active", <<2, 8>>, 0)}
    ELSE {Board("terminal", <<0, 0>>, 0), Board("active", <<0, 0>>, 4),
          Board("active", <<0, 4>>, 12)}

\* the engine starts a round
PairHuntGameNewRound ==
    /\ call.op = "none"
    /\ last.op \in {"init", "pair_hunt_round_over"}
    /\ round_num < PairHuntRounds
    /\ \E cs \in PairHuntGameDeals :
          call' = [op |-> "pair_hunt_new_round", my_cards |-> cs]
    /\ round_num' = round_num + 1
    /\ UNCHANGED <<tunerVars, allocVars, starting_strengths, ret, last, baseline>>

\* the engine asks for the three actions: first for the assignment, then for
\* bets on streets that do not go back
PairHuntGetActions ==
    /\ call.op = "none"
    /\ last.op \in {"pair_hunt_new_round", "pair_hunt_get_actions"}
    /\ \E street \in {0, 5}, stacks \in GameStacks :
          \E boards \in IF last.op = "pair_hunt_new_round"
                        THEN {[i \in 1..3 |-> Board("assign", <<0, 0>>, 0)]}
                        ELSE [1..3 -> PairHuntBoards(street)] :
             /\ last.op = "pair_hunt_new_round" => street = 0
             /\ last.op = "pair_hunt_get_actions" => street >= last.street
             /\ call' = [op |-> "pair_hunt_get_actions", street |-> street,
                         stacks |-> stacks, boards |-> boards]
    /\ UNCHANGED <<tunerVars, allocVars, starting_strengths, round_num, ret, last, baseline>>

\* Player.get_actions of the pair-hunt bot serves the call
PairHuntHandleGetActions ==
    /\ call.op = "pair_hunt_get_actions"
    /\ \E rs \in CoinChoices(call.boards) :
          /\ ret' = [op |-> "pair_hunt_get_actions"] @@
                    pair_hunt_get_actions(call.boards, call.street, call.stacks, rs)
          /\ last' = [op |-> "pair_hunt_get_actions", street |-> call.street,
                      stacks |-> call.stacks, boards |-> call.boards, rs |-> rs]
    /\ call' = NoCall
    /\ UNCHANGED <<tunerVars, allocVars, starting_strengths, round_num, baseline>>

\* the engine ends the round
PairHuntRoundOver ==
    /\ call.op = "none"
    /\ last.op = "pair_hunt_get_actions"
    /\ \E d \in GameDeltas : call' = [op |-> "pair_hunt_round_over", my_delta |-> d]
    /\ UNCHANGED <<tunerVars, allocVars, starting_strengths, round_num, ret, last, baseline>>

\* Player.handle_round_over of the pair-hunt bot (player.py:240-266): the
\* allocation is reset, hole_strengths is not written
PairHuntHandleRoundOver ==
    /\ call.op = "pair_hunt_round_over"
    /\ board_allocations' = <<<<>>, <<>>, <<>>>>
    /\ ret' = [op |-> "pair_hunt_round_over"]
    /\ last' = [op |-> "pair_hunt_round_over", my_delta |-> call.my_delta]
    /\ call' = NoCall
    /\ UNCHANGED <<tunerVars, hole_strengths, starting_strengths, round_num, baseline>>

NextPairHunt ==
    \/ PairHuntGameNewRound \/ PairHuntHandleNewRound
    \/ PairHuntGetActions \/ PairHuntHandleGetActions
    \/ PairHuntRoundOver \/ PairHuntHandleRoundOver

\* a game of the pair-hunt bot
SpecPairHunt == InitPairHunt /\ [][NextPairHunt]_vars

---------------------------------------------------------------------------
(* Claims about the tuner *)

\* the last served call was handle_round_over
AfterRoundOver == last.op = "handle_round_over"

\* ... of a round that closes a window
AtBoundary == AfterRoundOver /\ last.round_num % 5 = 0

\* the payoff accumulated when that call compared it with the target
Accumulated == last.pre.total_payoffs + last.my_delta

\* C7 (as claimed): after the revert branch (window boundary, accumulated
\* payoff below 30, a mutation active) every tunable parameter equals exactly
\* its value before that mutation was applied, and the active flag is clear.
C7_RevertRestoresExactly ==
    (AtBoundary /\ Accumulated < 30 /\ last.pre.mutated)
        => (Params = baseline /\ ~mutated)

\* C8: at a window boundary with accumulated payoff below 30 and no mutation
\* active, each of the six stored perturbations is the one sampled from this
\* call's own draw, each parameter is its old value plus that perturbation
\* (a float addition), and the active flag is set.
C8_MutateBranchApplies ==
    (AtBoundary /\ Accumulated < 30 /\ ~last.pre.mutated)
        => /\ mutated
           /\ draise_pre   = Perturbation(last.draws[1], 50, last.round_num)
           /\ draise_post  = Perturbation(last.draws[2], 50, last.round_num)
           /\ dcall_pre    = Perturbation(last.draws[3], 50, last.round_num)
           /\ dcall_post   = Perturbation(last.draws[4], 50, last.round_num)
           /\ draise_exp   = Perturbation(last.draws[5], 100, last.round_num)
           /\ draise_const = Perturbation(last.draws[6], 4000, last.round_num)
           /\ RAISE_MIN_STR.pre  = FRound(last.pre.params.raise_pre + draise_pre)
           /\ RAISE_MIN_STR.post = FRound(last.pre.params.raise_post + draise_post)
           /\ CALL_MIN_STR.pre   = FRound(last.pre.params.call_pre + dcall_pre)
           /\ CALL_MIN_STR.post  = FRound(last.pre.params.call_post + dcall_post)
           /\ RAISE_VALUES.exp   = FRound(last.pre.params.exp + draise_exp)
           /\ RAISE_VALUES.const = FRound(last.pre.params.const + draise_const)

\* C8 witness: a second-window mutation (round 10) that moved every parameter
C8_Witness ==
    /\ AtBoundary /\ Accumulated < 30 /\ ~last.pre.mutated
    /\ last.round_num = 10
    /\ \A k \in 1..6 : last.draws[k] = 999
    /\ Params.raise_pre # last.pre.params.raise_pre
    /\ Params.const # last.pre.params.const

\* C9: at a window boundary where the accumulated payoff exceeds 30 the six
\* parameters are unchanged and the active flag is clear, whether or not a
\* mutation was active.
C9_SuccessKeepsParams ==
    (AtBoundary /\ Accumulated > 30)
        => (Params = last.pre.params /\ ~mutated)

\* C9 witness: a success boundary reached while a mutation was active
C9_Witness ==
    /\ AtBoundary /\ Accumulated > 30
    /\ last.pre.mutated
    /\ Params # baseline

\* C10: after handle_round_over on a window boundary the accumulator is 0
\* whatever the branch; on any other round it grew by exactly the round's delta.
C10_AccumulatorReset ==
    AfterRoundOver =>
        /\ (last.round_num % 5 = 0 => total_payoffs = 0)
        /\ (last.round_num % 5 # 0 => total_payoffs = last.pre.total_payoffs + last.my_delta)

\* C10 witness: the tie branch (accumulated payoff exactly 30) reset a
\* non-zero accumulator, after rounds that accumulated without a reset
C10_Witness ==
    /\ AtBoundary /\ Accumulated = 30
    /\ last.pre.total_payoffs = 24
    /\ total_payoffs = 0

\* the names of the six tunable parameters
ParamNames == {"raise_pre", "raise_post", "call_pre", "call_post", "exp", "const"}

\* C27: at most one unresolved perturbation is applied.  While the flag is set
\* every parameter is its value before the mutation plus the stored
\* perturbation (the float sum the mutation wrote when it set the flag), and a
\* call that found the flag set sampled no new perturbation and, if the flag
\* is still set, changed no parameter.
C27_NoCompounding ==
    /\ mutated => \A f \in ParamNames : Params[f] = FAdd(baseline[f], Deltas[f])
    /\ (AfterRoundOver /\ last.pre.mutated) =>
           /\ Deltas = last.pre.deltas
           /\ mutated => Params = last.pre.params

\* a round inside the second window served while the mutation of round 5 was
\* active: the perturbed parameters and the stored perturbations stayed
C27_Witness ==
    /\ AfterRoundOver
    /\ last.round_num = 7
    /\ last.pre.mutated /\ mutated
    /\ Accumulated < 30
    /\ Params # baseline
    /\ \A f \in ParamNames : Deltas[f] # 0

\* C28 (as claimed): in every reachable state the call cutoff is strictly
\* below the raise cutoff of the same phase, pre-flop and post-flop.
C28_ThresholdOrdering ==
    /\ CALL_MIN_STR.pre < RAISE_MIN_STR.pre
    /\ CALL_MIN_STR.post < RAISE_MIN_STR.post

\* the post-flop half of C28
PostFlopOrdering == CALL_MIN_STR.post < RAISE_MIN_STR.post

\* C29: at a window boundary where the accumulated payoff is exactly 30,
\* mutate changes neither the six parameters nor the active-mutation flag, and
\* resets the accumulator to 0.
C29_ExactTarget ==
    (AtBoundary /\ Accumulated = 30)
        => /\ Params = last.pre.params
           /\ mutated = last.pre.mutated
           /\ total_payoffs = 0

\* the window of rounds 6..10 met the target exactly while the mutation of
\* round 5 was active: the mutation stays applied and the flag stays set
C29_Witness ==
    /\ AtBoundary /\ Accumulated = 30
    /\ last.round_num = 10
    /\ last.pre.mutated /\ mutated
    /\ Params # baseline
    /\ last.pre.total_payoffs # 0

---------------------------------------------------------------------------
(* Claims about the allocator *)

\* the cards of a list, as a set
CardSet(cs) == {cs[i] : i \in DOMAIN cs}

\* the last served call was handle_new_round
AfterNewRound == last.op = "handle_new_round"

\* the three hands hold two cards each, are pairwise disjoint and together
\* are the six cards dealt
IsPartition ==
    /\ \A b \in 1..3 : Len(board_allocations[b]) = 2
                       /\ board_allocations[b][1] # board_allocations[b][2]
    /\ \A b, c \in 1..3 :
          b # c => CardSet(board_allocations[b]) \cap CardSet(board_allocations[c]) = {}
    /\ UNION {CardSet(board_allocations[b]) : b \in 1..3} = CardSet(last.my_cards)

\* C5 (as claimed): for six distinct cards and any table exhaustive over the
\* canonical keys with values in [0,1], allocate_cards ends normally and
\* board_allocations is a partition of the six cards into three hands of two.
C5_AllocatorPartitions ==
    (AfterNewRound /\ DOMAIN starting_strengths = Keys)
        => (ret.error = "none" /\ IsPartition)

\* the same, for tables whose values are all strictly positive
AllocatorPartitionsPositive ==
    (AfterNewRound /\ DOMAIN starting_strengths = Keys
                   /\ \A key \in Keys : starting_strengths[key] > 0)
        => (ret.error = "none" /\ IsPartition)

\* the pairs of cards the first pass of allocate_cards looks up
CandidatePairs(cs) == {<<cs[i], cs[j]>> : i, j \in DOMAIN cs} \ {<<cs[i], cs[i]>> : i \in DOMAIN cs}

\* some pair of the cards dealt has no row in the table
UnknownKey ==
    \E hole \in CandidatePairs(last.my_cards) :
        hole_list_to_key(hole) \notin DOMAIN starting_strengths

\* C14: when the key of a candidate pair is absent from the table,
\* allocate_cards ends in an error (KeyError); no strength is substituted and
\* no hand is allocated.
C14_UnknownKeyFatal ==
    (AfterNewRound /\ UnknownKey) =>
        /\ ret.error = "KeyError"
        /\ board_allocations = <<<<>>, <<>>, <<>>>>
        /\ hole_strengths = <<0, 0, 0>>

\* a deal holding the ace and queen of spades against the table without
\* their row
C14_Witness ==
    /\ AfterNewRound
    /\ UnknownKey
    /\ ret.error = "KeyError"
    /\ \E i, j \in 1..6 : last.my_cards[i] = <<"A", "s">> /\ last.my_cards[j] = <<"Q", "s">>

\* the card list is not six distinct cards
NotSixDistinct(cs) == Len(cs) # 6 \/ Cardinality(CardSet(cs)) # Len(cs)

\* C15 (as claimed): allocate_cards called with a card list that is not
\* exactly six distinct cards (fewer, more, or a duplicate) ends in an error.
C15_BadDealFatal ==
    (AfterNewRound /\ NotSixDistinct(last.my_cards)) => ret.error # "none"

\* the same for the lists that are too short or repeat a card
ShortOrDuplicateFatal ==
    (AfterNewRound /\ (Len(last.my_cards) < 6
                         \/ Cardinality(CardSet(last.my_cards)) # Len(last.my_cards)))
        => ret.error # "none"

\* pass k (0..2) of the last call selected a pair
PassDone(k) == Len(board_allocations[3 - k]) = 2

\* the cards still unallocated when pass k starts, in the order of the scan
RECURSIVE Remaining(_)
Remaining(k) ==
    IF k = 0 THEN sort_cards_by_rank(last.my_cards)
    ELSE Remove(Remove(Remaining(k - 1), board_allocations[4 - k][1]),
                board_allocations[4 - k][2])

\* the table strength of the hand made of cards x and y
PairStrength(x, y) == starting_strengths[hole_list_to_key(<<x, y>>)]

\* the pair selected in pass k is a pair i < j of the remaining cards, no
\* remaining pair is stronger, and every pair the scan meets earlier is weaker
GreedyAt(k) ==
    LET R == Remaining(k)
        chosen == board_allocations[3 - k]
        best == PairStrength(chosen[1], chosen[2])
    IN  \E i, j \in 1..Len(R) :
           /\ i < j
           /\ chosen = <<R[i], R[j]>>
           /\ \A a, b \in 1..Len(R) :
                 a < b => /\ PairStrength(R[a], R[b]) <= best
                          /\ (a < i \/ (a = i /\ b < j)) => PairStrength(R[a], R[b]) < best

C17_SlotOrder ==
    AfterNewRound =>
        /\ hole_strengths[3] >= hole_strengths[2]
        /\ hole_strengths[2] >= hole_strengths[1]
        /\ \A i \in 1..3 :
              Len(board_allocations[i]) = 2 =>
                  hole_strengths[i]
                     = PairStrength(board_allocations[i][1], board_allocations[i][2])
        /\ \A k \in 0..2 : PassDone(k) => \A h \in 0..k : PassDone(h)

\* an allocation of three hands of three different strengths
C17_Witness ==
    /\ AfterNewRound
    /\ ret.error = "none"
    /\ \A k \in 0..2 : PassDone(k)
    /\ hole_strengths[3] > hole_strengths[2]
    /\ hole_strengths[2] > hole_strengths[1]
    /\ hole_strengths[1] > 0

---------------------------------------------------------------------------
(* Claims about the betting policy *)

\* the last served call was get_actions
AfterGetActions == last.op = "get_actions" /\ ret.op = "get_actions"

\* what the board asks to stay in the pot
ContinueCost(b) == b.pips[2] - b.pips[1]

\* the chips an emitted action costs: the raise amount minus the own pip for
\* a raise, the continue cost for a call, nothing otherwise
ActionCost(a, b) ==
    IF a.type = "Raise" THEN a.amount - b.pips[1]
    ELSE IF a.type = "Call" THEN ContinueCost(b)
    ELSE 0

\* the chips the three emitted actions cost together
TotalCost ==
    ActionCost(ret.my_actions[1], last.boards[1])
        + ActionCost(ret.my_actions[2], last.boards[2])
        + ActionCost(ret.my_actions[3], last.boards[3])

\* the strength get_actions works with on board i
StrengthOf(i) == IF last.street < 3 THEN hole_strengths[i] ELSE last.samples[i]

\* C1: the chip costs of the three actions of one call of get_actions never
\* add up to more than my_stack, the stack at the start of the call.
C1_StackSafety == AfterGetActions => TotalCost <= last.stacks[1]

\* a call that spends the whole stack with a raise on one board and a call on
\* another
C1_Witness ==
    /\ AfterGetActions
    /\ last.stacks[1] > 0
    /\ TotalCost = last.stacks[1]
    /\ \E i, j \in 1..3 : /\ ret.my_actions[i].type = "Raise"
                          /\ ret.my_actions[j].type = "Call"

\* C2: every action get_actions returns for a board is one of the board's
\* legal actions.
C2_LegalActionLaw ==
    AfterGetActions =>
        \A i \in 1..3 :
            ret.my_actions[i].type \in legal_actions(last.boards[i], last.stacks)

\* one call that checks a board with nothing to pay, calls a second board and
\* folds a third
C2_Witness ==
    /\ AfterGetActions
    /\ \E i, j, k \in 1..3 :
          /\ last.boards[i].kind = "active" /\ ContinueCost(last.boards[i]) = 0
          /\ ret.my_actions[i].type = "Check"
          /\ ContinueCost(last.boards[j]) > 0 /\ ret.my_actions[j].type = "Call"
          /\ ContinueCost(last.boards[k]) > 0 /\ ret.my_actions[k].type = "Fold"

\* C3: an emitted RaiseAction(amount) has min_raise <= amount <= max_raise
\* for the raise bounds of its board.
C3_RaiseBoundLaw ==
    AfterGetActions =>
        \A i \in 1..3 :
            ret.my_actions[i].type = "Raise" =>
                LET bounds == raise_bounds(last.boards[i], last.stacks)
                IN  bounds[1] <= ret.my_actions[i].amount
                    /\ ret.my_actions[i].amount <= bounds[2]

\* one call raising a board to the end of its range and another board to
\* an amount strictly inside its range
C3_Witness ==
    /\ AfterGetActions
    /\ \E i, j \in 1..3 :
          LET bi == raise_bounds(last.boards[i], last.stacks)
              bj == raise_bounds(last.boards[j], last.stacks)
          IN  /\ ret.my_actions[i].type = "Raise" /\ bi[1] < bi[2]
              /\ ret.my_actions[i].amount \in {bi[1], bi[2]}
              /\ ret.my_actions[j].type = "Raise"
              /\ bj[1] < ret.my_actions[j].amount
              /\ ret.my_actions[j].amount < bj[2]

\* board i is in play, asks for chips, and the strength after the
\* intimidation discount is below continue_cost / (pot_total + continue_cost)
BelowPotOdds(i) ==
    LET b == last.boards[i]
        adjusted == Intimidated(last.street, ContinueCost(b), StrengthOf(i))
    IN  /\ b.kind = "active"
        /\ ContinueCost(b) > 0
        /\ adjusted * (b.pips[1] + b.pips[2] + b.pot + ContinueCost(b))
               < ContinueCost(b) * Scale

\* C4: on an active board whose adjusted strength is strictly below the pot
\* odds, get_actions emits FoldAction (neither a call nor a raise).
C4_PotOddsFold ==
    AfterGetActions =>
        \A i \in 1..3 : BelowPotOdds(i) => ret.my_actions[i].type = "Fold"

\* a board folded for its pot odds alone: the undiscounted strength is above
\* the call cutoff and above the pot odds, the discounted one below them
C4_Witness ==
    /\ AfterGetActions
    /\ \E i \in 1..3 :
          LET b == last.boards[i]
          IN  /\ BelowPotOdds(i)
              /\ StrengthOf(i) > CallMin(last.street)
              /\ ContinueCost(b) < 6 * 6
              /\ ContinueCost(b) <= last.stacks[1]
              /\ StrengthOf(i) * (b.pips[1] + b.pips[2] + b.pot + ContinueCost(b))
                     >= ContinueCost(b) * Scale
              /\ ret.my_actions[i].type = "Fold"

RECURSIVE NetCostBefore(_)
NetCostBefore(i) ==
    IF i = 1 THEN 0
    ELSE NetCostBefore(i - 1) + ActionCost(ret.my_actions[i - 1], last.boards[i - 1])

\* the legal actions of board i in the served call
LegalOf(i) == legal_actions(last.boards[i], last.stacks)

\* the clamped raise amount get_actions computed for board i
RaiseAmountOf(i) ==
    LET b == last.boards[i]
        bounds == raise_bounds(b, last.stacks)
        table_strength == IF last.street < 3
                          THEN starting_strengths[hole_list_to_key(board_allocations[i])]
                          ELSE 0
    IN  ClampRaise(bounds[1], bounds[2],
                   RaiseCandidate(last.street, b.pips[1], ContinueCost(b),
                                  StrengthOf(i), table_strength))

\* board i is in play with nothing to pay, a raise is legal and its cost fits
\* what is left of the stack
HoldsInitiative(i) ==
    /\ last.boards[i].kind = "active"
    /\ ContinueCost(last.boards[i]) = 0
    /\ "Raise" \in LegalOf(i)
    /\ RaiseAmountOf(i) - last.boards[i].pips[1] <= last.stacks[1] - NetCostBefore(i)

\* C13: with the initiative (continue cost 0, raise legal and affordable) and
\* a strength above the raise threshold that is at least 1/1.4, as 0.8 is,
\* get_actions raises for every random draw and never checks.
C13_StrongInitiativeRaises ==
    AfterGetActions =>
        \A i \in 1..3 :
            (/\ HoldsInitiative(i)
             /\ 14 * StrengthOf(i) >= 10 * Scale
             /\ StrengthOf(i) > RaiseMin(last.street))
                => ret.my_actions[i].type = "Raise"

\* the scenario itself: strength 0.8 on a board with pot total 100, raised
\* under the highest random draw
C13_Witness ==
    /\ AfterGetActions
    /\ \E i \in 1..3 :
          /\ HoldsInitiative(i)
          /\ StrengthOf(i) = 800
          /\ last.boards[i].pips[1] + last.boards[i].pips[2] + last.boards[i].pot = 100
          /\ last.rs[i] = 999
          /\ ret.my_actions[i].type = "Raise"

\* what is left of the stack when the loop reaches board i
BudgetAt(i) == last.stacks[1] - NetCostBefore(i)

\* the commit action get_actions computed for board i, given the clamped
\* raise amount and the budget
CommitFor(i, raise_amount, budget) ==
    Commit(LegalOf(i), raise_amount, last.boards[i].pips[1],
           ContinueCost(last.boards[i]), budget).action.type

\* the kind of the commit action get_actions computed for board i
CommitAt(i) == CommitFor(i, RaiseAmountOf(i), BudgetAt(i))

\* a raise is legal, fits the budget, and is more than a pure call
RaiseFits(i, raise_amount, budget) ==
    /\ "Raise" \in LegalOf(i)
    /\ raise_amount - last.boards[i].pips[1] <= budget
    /\ raise_amount # last.boards[i].pips[1] + ContinueCost(last.boards[i])

\* a call is legal and fits the budget
CallFits(i, budget) ==
    "Call" \in LegalOf(i) /\ ContinueCost(last.boards[i]) <= budget

\* C18: on a board in play the commit action is a raise iff a raise is legal,
\* its cost is within my_stack minus what earlier boards committed, and the
\* amount differs from a pure call; otherwise a call iff a call is legal and
\* the continue cost is within that budget; otherwise a check iff a check is
\* legal; otherwise a fold.
C18_CommitPrecedence ==
    AfterGetActions =>
        \A i \in 1..3 :
            Decides(last.boards[i]) =>
                LET budget == BudgetAt(i)
                    raise_amount == RaiseAmountOf(i)
                    commit == CommitFor(i, raise_amount, budget)
                    raises == RaiseFits(i, raise_amount, budget)
                    calls == CallFits(i, budget)
                    checks == "Check" \in LegalOf(i)
                IN  /\ commit = "Raise" <=> raises
                    /\ commit = "Call" <=> (~raises /\ calls)
                    /\ commit = "Check" <=> (~raises /\ ~calls /\ checks)
                    /\ commit = "Fold" <=> (~raises /\ ~calls /\ ~checks)

\* one call in which a board commits to a raise, a later board to a call
\* because the raise no longer fits, and both are emitted
C18_Witness ==
    /\ AfterGetActions
    /\ \E i, j \in 1..3 :
          /\ CommitAt(i) = "Raise" /\ ret.my_actions[i].type = "Raise"
          /\ CommitAt(j) = "Call" /\ "Raise" \in LegalOf(j)
          /\ ret.my_actions[j].type = "Call"

\* board i asks for chips, the discounted strength is at least the pot odds,
\* and the raise branch is not taken
RespondsWithoutRaise(i) ==
    LET b == last.boards[i]
        adjusted == Intimidated(last.street, ContinueCost(b), StrengthOf(i))
    IN  /\ b.kind = "active"
        /\ ContinueCost(b) > 0
        /\ adjusted * (b.pips[1] + b.pips[2] + b.pot + ContinueCost(b))
               >= ContinueCost(b) * Scale
        /\ ~(10 * last.rs[i] < 14 * adjusted /\ StrengthOf(i) > RaiseMin(last.street))

\* the continue cost of board i is small: sqrt(cost - threshold) < 6
SmallBet(i) == ContinueCost(last.boards[i]) - INTIMIDATION_THRESHOLD < 6 * 6

C20_RaiseNeedsStrength ==
    AfterGetActions =>
        \A i \in 1..3 :
            ret.my_actions[i].type = "Raise" => StrengthOf(i) > RaiseMin(last.street)

\* one call raising a board that faces a bet and a board with the initiative
C20_Witness ==
    /\ AfterGetActions
    /\ \E i, j \in 1..3 :
          /\ ContinueCost(last.boards[i]) > 0 /\ ret.my_actions[i].type = "Raise"
          /\ ContinueCost(last.boards[j]) = 0 /\ ret.my_actions[j].type = "Raise"

\* the strength of board i after the intimidation discount
AdjustedOf(i) == Intimidated(last.street, ContinueCost(last.boards[i]), StrengthOf(i))

\* 0.05 * sqrt(continue_cost) * sqrt(strength), in thousandths
Discount(continue_cost, strength) ==
    RoundDiv(50 * ISqrt(continue_cost * strength * Scale), Scale)

\* C21: when the continue cost is positive the adjusted strength lies between
\* 0 and the original strength; pre-flop with a continue cost above 20 it is
\* the original strength, and otherwise the original strength minus
\* 0.05 * sqrt(continue_cost) * sqrt(strength), floored at zero.
C21_IntimidationDiscount ==
    AfterGetActions =>
        \A i \in 1..3 :
            (last.boards[i].kind = "active" /\ ContinueCost(last.boards[i]) > 0) =>
                LET cost == ContinueCost(last.boards[i])
                    strength == StrengthOf(i)
                    adjusted == AdjustedOf(i)
                IN  /\ 0 <= adjusted /\ adjusted <= strength
                    /\ (last.street = 0 /\ cost > 20) => adjusted = strength
                    /\ ~(last.street = 0 /\ cost > 20) =>
                          adjusted = Max(0, strength - Discount(cost, strength))

\* a board whose discount is larger than its strength: the adjusted strength
\* is floored at zero and the board is folded
C21_Witness ==
    /\ AfterGetActions
    /\ \E i \in 1..3 :
          /\ last.boards[i].kind = "active"
          /\ ContinueCost(last.boards[i]) > 0
          /\ StrengthOf(i) > 0
          /\ Discount(ContinueCost(last.boards[i]), StrengthOf(i)) > StrengthOf(i)
          /\ AdjustedOf(i) = 0
          /\ ret.my_actions[i].type = "Fold"

\* the call condition of the respond branch, budget aside: the bet has
\* non-negative expected value and the strength passes the cutoffs
WouldCall(i) ==
    /\ PositiveEV(AdjustedOf(i), ContinueCost(last.boards[i]),
                  last.boards[i].pips[1] + last.boards[i].pips[2] + last.boards[i].pot)
    /\ \/ SmallBet(i) /\ StrengthOf(i) > CallMin(last.street)
       \/ StrengthOf(i) > RaiseMin(last.street)

\* C22: on an active board whose continue cost is greater than my_stack minus
\* the cost committed on earlier boards of the call, get_actions never calls:
\* the action is a fold, also when the policy would otherwise call.
C22_UnaffordableFolds ==
    AfterGetActions =>
        \A i \in 1..3 :
            (/\ last.boards[i].kind = "active"
             /\ ContinueCost(last.boards[i]) > BudgetAt(i)) =>
                /\ ret.my_actions[i].type # "Call"
                /\ WouldCall(i) => ret.my_actions[i].type = "Fold"

\* a board the policy would call on, where a call is legal, whose continue
\* cost is more than what is left of the stack after an earlier board's chips
C22_Witness ==
    /\ AfterGetActions
    /\ \E i \in 2..3 :
          /\ last.boards[i].kind = "active"
          /\ "Call" \in LegalOf(i)
          /\ NetCostBefore(i) > 0
          /\ ContinueCost(last.boards[i]) <= last.stacks[1]
          /\ ContinueCost(last.boards[i]) > BudgetAt(i)
          /\ WouldCall(i)
          /\ ret.my_actions[i].type = "Fold"

\* what the loop of get_actions adds to net_cost at board i when it enters
\* the board with net_cost = before
CostSeen(i, before) ==
    BoardAction(i, last.boards[i], last.street, last.stacks,
                before, last.samples[i], last.rs[i]).cost

\* net_cost as the loop of get_actions has accumulated it before board i
RECURSIVE NetCostAt(_)
NetCostAt(i) ==
    IF i = 1 THEN 0
    ELSE LET before == NetCostAt(i - 1)
         IN  before + CostSeen(i - 1, before)

\* C23: net_cost starts at 0 and, before board i is processed, is the sum of
\* the chip costs of the actions emitted for the earlier boards (raise amount
\* minus own pip for a raise, continue cost for a call, 0 otherwise); it never
\* decreases within the call, and at the end it is the cost of all three.
C23_AccumulatorExact ==
    AfterGetActions =>
        LET n1 == NetCostAt(1)
            n2 == n1 + CostSeen(1, n1)
            n3 == n2 + CostSeen(2, n2)
        IN  /\ n1 = 0
            /\ n2 = ActionCost(ret.my_actions[1], last.boards[1])
            /\ n3 = n2 + ActionCost(ret.my_actions[2], last.boards[2])
            /\ ret.net_cost = n3 + ActionCost(ret.my_actions[3], last.boards[3])
            /\ n1 <= n2 /\ n2 <= n3 /\ n3 <= ret.net_cost

\* a raise on the first board and a call on the second: the third board sees
\* the stack less both
C23_Witness ==
    /\ AfterGetActions
    /\ ret.my_actions[1].type = "Raise"
    /\ ret.my_actions[2].type = "Call"
    /\ last.boards[3].kind = "active"
    /\ NetCostAt(3) = (ret.my_actions[1].amount - last.boards[1].pips[1])
                          + ContinueCost(last.boards[2])
    /\ NetCostAt(3) > NetCostAt(2)
    /\ ret.net_cost >= NetCostAt(3)

---------------------------------------------------------------------------
(* Claims about the game *)

\* C11: the six parameters and the active-mutation flag change only in
\* handle_round_over (mutate) on a round whose number is divisible by 5:
\* get_actions (with public_eval), handle_new_round (with allocate_cards) and
\* mutate on any other round leave them as they are.
C11_ParamsFrame ==
    [][(call.op # "handle_round_over" \/ round_num % mutate_iters # 0)
          => (Params' = Params /\ mutated' = mutated)]_vars

\* get_actions served while a mutation is active: the parameters differ from
\* the defaults, a perturbation is stored, and the round closes no window
C11_Witness ==
    /\ last.op = "get_actions"
    /\ mutated
    /\ round_num % mutate_iters # 0
    /\ RAISE_MIN_STR.pre # FRound(RAISE_MIN_STR_pre)
    /\ draise_pre # 0

\* what allocate_cards makes of a deal when the allocation is in its reset state
RoundStartAllocation(my_cards) ==
    allocate_cards(my_cards, starting_strengths, <<<<>>, <<>>, <<>>>>, <<0, 0, 0>>)

\* C25: board_allocations and hole_strengths are written by handle_new_round
\* (the allocation of the round's deal), left unchanged by every get_actions,
\* and reset to [[],[],[]] and [0,0,0] by handle_round_over; every
\* AssignAction get_actions emits for board i carries the hand allocated to
\* board i at the start of the round.
C25_AllocationLifecycle ==
    [][/\ call.op = "handle_new_round" =>
             /\ board_allocations' = RoundStartAllocation(call.my_cards).board_allocations
             /\ hole_strengths' = RoundStartAllocation(call.my_cards).hole_strengths
       /\ call.op = "get_actions" =>
             /\ board_allocations' = board_allocations
             /\ hole_strengths' = hole_strengths
             /\ \A i \in 1..3 :
                   ret'.my_actions[i].type = "Assign" =>
                       /\ last.op = "handle_new_round"
                       /\ ret'.my_actions[i].cards
                              = RoundStartAllocation(last.my_cards).board_allocations[i]
                       /\ ret'.my_actions[i].cards = board_allocations'[i]
       /\ call.op = "handle_round_over" =>
             /\ board_allocations' = <<<<>>, <<>>, <<>>>>
             /\ hole_strengths' = <<0, 0, 0>>
       /\ call.op = "none" =>
             /\ board_allocations' = board_allocations
             /\ hole_strengths' = hole_strengths
      ]_vars

\* the assignment of the second round: the three actions carry the hands
\* allocated from that round's deal, after the reset at the end of round 1
C25_Witness ==
    /\ last.op = "get_actions"
    /\ round_num = 2
    /\ \A i \in 1..3 :
          /\ ret.my_actions[i].type = "Assign"
          /\ Len(ret.my_actions[i].cards) = 2
          /\ ret.my_actions[i].cards = board_allocations[i]
    /\ hole_strengths[1] > 0

---------------------------------------------------------------------------
(* Claims about the equity estimator *)

\* C12: for N >= 1 iterations public_eval returns (2*W + T) / (2*N), W the
\* number of strict wins and T the number of ties; the running score stays in
\* 0..2*N after every iteration and the result lies in [0,1].
C12_EquityResult ==
    /\ call.op = "public_eval" =>
          (0 <= call.score /\ call.score <= 2 * call.iters)
    /\ (last.op = "public_eval" /\ ret.op = "public_eval") =>
          /\ ret.value = RoundDiv((2 * last.wins + last.ties) * Scale, 2 * last.iters)
          /\ 0 <= ret.value /\ ret.value <= Scale

\* a returned estimate made of wins, ties and losses
C12_Witness ==
    /\ last.op = "public_eval" /\ ret.op = "public_eval"
    /\ last.wins > 0 /\ last.ties > 0
    /\ last.wins + last.ties < last.iters
    /\ 0 < ret.value /\ ret.value < Scale

\* the cards of a list are pairwise distinct
Distinct(cs) == Cardinality(SetOf(cs)) = Len(cs)

\* the draw of the last iteration: opp_hole and hidden_public
OppHole == SubSeq(call.draw, 1, 2)
HiddenPublic == SubSeq(call.draw, 3, Len(call.draw))

\* C24: every iteration of public_eval draws exactly 2 + (5 - street) cards,
\* all distinct and none of them a card of the own hand or of the visible
\* community cards, so each of the two evaluated hands has exactly 7 distinct
\* cards; for street in {0,3,4,5} the remaining cards are enough for the draw.
C24_EstimatorSampling ==
    call.op = "public_eval" =>
        /\ ~call.error
        /\ Len(remaining_cards(call.private, call.public)) >= 2 + (5 - call.street)
        /\ call.done > 0 =>
              /\ Len(call.draw) = 2 + (5 - call.street)
              /\ Distinct(call.draw)
              /\ SetOf(call.draw) \cap SetOf(call.private) = {}
              /\ SetOf(call.draw) \cap SetOf(call.public) = {}
              /\ SetOf(call.draw) \subseteq SetOf(FULL_DECK)
              /\ Len(call.private \o call.public \o HiddenPublic) = 7
              /\ Distinct(call.private \o call.public \o HiddenPublic)
              /\ Len(OppHole \o call.public \o HiddenPublic) = 7
              /\ Distinct(OppHole \o call.public \o HiddenPublic)

\* the second iteration on the flop: four cards drawn next to the three
\* community cards, the first of them standing next to a removed card
C24_Witness ==
    /\ call.op = "public_eval"
    /\ call.street = 3
    /\ call.done = 2
    /\ Len(call.public) = 3
    /\ Len(call.draw) = 4
    /\ call.draw[1] # FULL_DECK[1]
    /\ call.draw[1] # call.draw[2]

---------------------------------------------------------------------------
(* Claims about the pair-hunt bot *)

\* the last served call was the pair-hunt handle_new_round
AfterPairHuntNewRound == last.op = "pair_hunt_new_round"

\* board i holds two cards of one rank
Paired(i) == board_allocations[i][1][1] = board_allocations[i][2][1]

\* the number of dealt cards of a rank
RankCount(rank) == Len(CardsOfRank(last.my_cards, rank))

\* C26: for six distinct cards the pair-hunt allocate_cards gives every board
\* exactly two cards and uses each of the six once, two cards that are the
\* only two of their rank land on the same board, and no board with a pair has
\* a lower index than a board with two cards of different rank.
C26_PairHuntAllocation ==
    AfterPairHuntNewRound =>
        /\ ~ret.error
        /\ IsPartition
        /\ \A x, y \in 1..6 :
              (/\ x # y
               /\ last.my_cards[x][1] = last.my_cards[y][1]
               /\ RankCount(last.my_cards[x][1]) = 2) =>
                  \E i \in 1..3 :
                      {last.my_cards[x], last.my_cards[y]} = SetOf(board_allocations[i])
        /\ \A i, j \in 1..3 : (Paired(i) /\ ~Paired(j)) => i > j

\* three kings, two queens and a lone card: the set-aside king and the lone
\* card share the lowest board, the pairs take the two boards above
C26_Witness ==
    /\ AfterPairHuntNewRound
    /\ RankCount("K") = 3 /\ RankCount("Q") = 2
    /\ ~Paired(1) /\ Paired(2) /\ Paired(3)
    /\ board_allocations[1][1][1] = "K"
    /\ \E i \in 2..3 : SetOf(board_allocations[i]) = {<<"Q", "s">>, <<"Q", "c">>}

\* the last served call was the pair-hunt get_actions
AfterPairHuntGetActions == last.op = "pair_hunt_get_actions"

\* C30: in the pair-hunt bot hole_strengths is [0,0,0] in every reachable
\* state, so over any sequence of rounds get_actions emits only AssignAction,
\* CheckAction or FoldAction, never CallAction or RaiseAction, and its
\* committed cost is 0.
C30_PairHuntNoChips ==
    /\ hole_strengths = <<0, 0, 0>>
    /\ AfterPairHuntGetActions =>
          /\ \A i \in 1..3 : ret.my_actions[i].type \in {"Assign", "Check", "Fold"}
          /\ ret.net_cost = 0
          /\ TotalCost = 0

\* in a later round: a board where a raise is legal and the draw is 0 is
\* checked, and a board with an affordable bet to call is folded
C30_Witness ==
    /\ AfterPairHuntGetActions
    /\ round_num >= 2
    /\ \E i, j \in 1..3 :
          /\ last.boards[i].kind = "active" /\ ContinueCost(last.boards[i]) = 0
          /\ "Raise" \in LegalOf(i)
          /\ last.rs[i] = 0
          /\ ret.my_actions[i].type = "Check"
          /\ last.boards[j].kind = "active" /\ ContinueCost(last.boards[j]) > 0
          /\ "Call" \in LegalOf(j)
          /\ ContinueCost(last.boards[j]) <= last.stacks[1]
          /\ ret.my_actions[j].type = "Fold"

=============================================================================
